---- MODULE Spec2Model ----
(***************************************************************************)
(* A model of jack's TensorFlow reader core: TFModelModule (setup,         *)
(* __call__, store, load, convert_to_feed_dict) and TFReader.train, from   *)
(* src/jack/core/tensorflow.py (specification Spec).                       *)
(*                                                                         *)
(* Further components, each with a specification of its own in which the   *)
(* variables of the others stay at rest:                                   *)
(*   ClipSpec    the gradient clipping of TFReader.train                   *)
(*   SharedSpec  SharedResources (src/jack/core/shared_resources.py)       *)
(*   PortsSpec   TensorPort objects (src/jack/core/tensorport.py)          *)
(*   EvalSpec    EvalHook.__call__ (src/jack/util/hooks.py)                *)
(*   XQASpec     XQAEvalHook.apply_metrics (src/jack/util/hooks.py)        *)
(*   LossSpec    LossHook's callbacks (src/jack/util/hooks.py)             *)
(*   KBPSpec     the ranking metrics of KBPEvalHook.at_test_time           *)
(*   HookSpec    an evaluation hook driven by the callbacks of train:      *)
(*               intervals, metrics file, side-effect callback             *)
(*                                                                         *)
(* Tensors and arrays are abstracted: a tensor is the kind of node bound   *)
(* to a port ("placeholder", "output", "training_output"), an array is a   *)
(* small integer.  TensorFlow variables are numbered 1, 2, ... in creation *)
(* order.  An optional Python value (None or x) is the sequence <<>> or    *)
(* <<x>>.                                                                  *)
(***************************************************************************)
EXTENDS Integers, Sequences, FiniteSets, TLC

\* ------------------------------------------------------------------ bounds
MaxEpochs == 2
MaxBatches == 2
MaxHooks == 2
MaxVars == 3
MaxGoals == 2
MaxCreate == 2
MaxGrads == 2
MaxClip == 1
MaxPorts == 2
MaxTotal == 3
MaxEvalBatches == 2
MaxBatchMetric == 1
MaxPredicted == 2
MaxGold == 2
MaxInterval == 3
MaxLossCalls == 6
MaxLoss == 2
MaxCandidates == 3
MaxKBPQuestions == 2
MaxTestCalls == 1

\* Candidates ranked lower than this do not count (hooks.py, line 513).
RankCutoff == 100

\* ------------------------------------------------------------------ ports
\* Ports are identified by their names (TensorPort.name).
LossPort == "loss"

\* The declarations of the concrete model module under test.  Its input
\* ports are one of InputPortChoices (chosen in Init); in the last choice a
\* port is declared both as an input and as an output of the module.
output_ports == {"candidate_scores"}
training_input_ports == {"candidate_scores", "target_index"}
training_output_ports == {LossPort}
InputPortChoices ==
  {{"question"}, {"question", "multiple_support"},
   {"question", "candidate_scores"}}

\* The output ports of the input module the reader is composed with.
im_output_ports == {"question", "sample_id", "target_index"}

\* Array values.
Values == {0, 1}

\* ------------------------------------------------------------------ helpers
None == <<>>
Some(x) == <<x>>
IsNone(o) == Len(o) = 0
Get(o) == o[1]

\* dict.update: the entries of g override those of f.
Update(f, g) ==
  [x \in (DOMAIN f) \cup (DOMAIN g) |-> IF x \in DOMAIN g THEN g[x] ELSE f[x]]

\* {p: kind for p in S}
Bind(S, kind) == [p \in S |-> kind]

EmptyDict == [p \in {} |-> 0]

VARIABLES
  input_ports,          \* TFModelModule.input_ports (fixed after Init)
  \* the TensorFlow default graph
  global_variables,     \* tf.global_variables()
  trainable_variables,  \* tf.trainable_variables()
  \* TFModelModule fields
  tensors,              \* self._tensors: None or port -> tensor kind
  placeholders,         \* self._placeholders: None or port -> tensor kind
  training_variables,   \* self._training_variables (unset before setup)
  variables,            \* self._variables (unset before setup)
  saver,                \* self._saver: the variables the tf.train.Saver covers
  \* JTReader fields
  reader,               \* "absent", "composed" or "rejected"
  is_setup,             \* self._is_setup
  \* the operation on the model module that has just been performed and
  \* what it did, until its caller goes on
  last_op,
  \* TFReader.train
  pc,                   \* position of the running train call
  max_epochs, nbatches, nhooks,  \* its arguments
  epoch, batch_no, hook_no,      \* i, j, and the index of the next hook
  loss_tensor,          \* the local `loss`
  train_init,           \* the variables initialised by line 213 (None before)
  entered_unset,        \* train was entered with _is_setup false (history)
  last_feed,            \* the ports fed to the last batch's session.run
  log                   \* the callback and computation events of this call

\* The gradient clipping of TFReader.train (lines 200-210), on its own.
VARIABLES
  clip,                 \* the argument `clip`: [kind, v]
  clip_op,              \* the argument `clip_op`: the name of a tf function
  gradients,            \* the local `gradients`: None or a list of (grad, var)
  min_op                \* the local `min_op` (None before), or the exception

clipVars == <<clip, clip_op, gradients, min_op>>

\* A SharedResources object and the files at the path it is stored to.
VARIABLES
  config,               \* self.config: a mapping key -> value
  vocab,                \* self.vocab: None or a Vocab (token -> id)
  files,                \* the artifacts at `path` and `path + "_vocab"`
  sr_op,                \* the last call on the object and how it ended
  stored                \* what the last store wrote, while the files hold it

sharedVars == <<config, vocab, files, sr_op, stored>>

\* TensorPort objects, told apart by identity, and the placeholders a
\* model module creates for them.
VARIABLES
  heap,                 \* the TensorPort objects: object number -> fields
  bindings,             \* self._placeholders: None or port object -> binding
  port_op               \* the last batch bound and what every binding yielded

portVars == <<heap, bindings, port_op>>

\* One evaluation by an EvalHook (EvalHook.__call__).
VARIABLES
  hook_total,           \* self._total: len(dataset)
  hook_metrics,         \* self._metrics: the metric keys that are collected
  batch_metrics,        \* what apply_metrics returns for each batch, in order
  batch_i,              \* the number of batches the loop has consumed
  metrics,              \* the local `metrics`: key -> list of batch values
  combined              \* None, or the outcome of combine_metrics

evalVars == <<hook_total, hook_metrics, batch_metrics, batch_i, metrics,
              combined>>

\* One call of XQAEvalHook.apply_metrics.
VARIABLES
  xqa_tensors,          \* the argument `tensors`: the three arrays
  xqa_metrics           \* None, or the outcome of the call

xqaVars == <<xqa_tensors, xqa_metrics>>

\* A LossHook (src/jack/util/hooks.py, lines 109-158).
VARIABLES
  loss_hook,            \* None, or the fields of the LossHook object
  loss_ret              \* the last callback of the hook and how it ended

lossVars == <<loss_hook, loss_ret>>

\* One call of KBPEvalHook.at_test_time.
VARIABLES
  kbp_q,                \* None, or the question the loop body is entered for
  kbp_acc,              \* the locals mean_ap, wmap, qd, md and len(q_answers)
  kbp_result            \* None, or the metrics the call computed

kbpVars == <<kbp_q, kbp_acc, kbp_result>>

\* An EvalHook registered with a train call.
VARIABLES
  hook,                 \* None, or the fields of the EvalHook object
  hook_run,             \* the train call: its arguments and the loop position
  hook_file,            \* the lines of the file at write_metrics_to
  hook_log              \* the evaluations and side-effect calls so far

hookVars == <<hook, hook_run, hook_file, hook_log>>

\* The reader's variables.
readerVars == <<input_ports, global_variables, trainable_variables, tensors,
                placeholders, training_variables, variables, saver, reader,
                is_setup, last_op, pc, max_epochs, nbatches, nhooks, epoch,
                batch_no, hook_no, loss_tensor, train_init, entered_unset,
                last_feed, log>>

\* The variables of the components that the reader's actions leave alone.
later == <<lossVars, kbpVars, hookVars>>
besides == <<clipVars, sharedVars, portVars, evalVars, xqaVars, later>>

\* The variables that the actions of one component leave alone.
notClip == <<readerVars, sharedVars, portVars, evalVars, xqaVars,
              later>>
notShared == <<readerVars, clipVars, portVars, evalVars, xqaVars,
                later>>
notPorts == <<readerVars, clipVars, sharedVars, evalVars, xqaVars,
               later>>
notEval == <<readerVars, clipVars, sharedVars, portVars, xqaVars,
              later>>
notXQA == <<readerVars, clipVars, sharedVars, portVars, evalVars, later>>
earlier == <<readerVars, clipVars, sharedVars, portVars, evalVars, xqaVars>>
notLoss == <<earlier, kbpVars, hookVars>>
notKBP == <<earlier, lossVars, hookVars>>
notHook == <<earlier, lossVars, kbpVars>>

vars == <<readerVars, besides>>

graphVars == <<global_variables, trainable_variables>>
moduleVars == <<tensors, placeholders, training_variables, variables, saver>>
trainVars == <<pc, max_epochs, nbatches, nhooks, epoch, batch_no, hook_no,
               loss_tensor, train_init, entered_unset, last_feed, log>>

\* Records of last_op.
NoOp == [op |-> "none"]
SetupOp(is_training, old, created, initialised, reentered) ==
  [op |-> "setup", is_training |-> is_training, old |-> old,
   created |-> created, initialised |-> initialised, reentered |-> reentered]
StoreOp(saved) == [op |-> "store", saved |-> saved]
LoadOp(loaded) == [op |-> "load", restored |-> loaded]
CallOp(status, given, goals, batch, ret) ==
  [op |-> "call", status |-> status, given |-> given, goals |-> goals,
   batch |-> batch, ret |-> ret]

\* ------------------------------------------------------------------ rest
\* The arguments `clip` of train: None, a number or a pair of bounds.
NoClip == [kind |-> "None", v |-> <<>>]

\* No train call is building its update operation: the arguments have their
\* defaults (clip=None, clip_op=tf.clip_by_value).
ClipAtRest ==
  /\ clip = NoClip
  /\ clip_op = "clip_by_value"
  /\ gradients = None
  /\ min_op = None

\* SharedResources(): config = dict(), vocab = None; nothing is stored.
EmptyConfig == [k \in {} |-> 0]
NoFiles == [config |-> None, vocab |-> None]

SharedAtRest ==
  /\ config = EmptyConfig
  /\ vocab = None
  /\ files = NoFiles
  /\ sr_op = [op |-> "none"]
  /\ stored = None

\* No TensorPort object has been created.
PortsAtRest ==
  /\ heap = <<>>
  /\ bindings = None
  /\ port_op = [op |-> "none"]

\* No evaluation hook exists.
EmptyMetrics == [k \in {} |-> <<>>]

EvalAtRest ==
  /\ hook_total = 0
  /\ hook_metrics = {}
  /\ batch_metrics = <<>>
  /\ batch_i = 0
  /\ metrics = EmptyMetrics
  /\ combined = None

\* apply_metrics is not being called.
XQAAtRest ==
  /\ xqa_tensors = [predicted_spans |-> <<>>, correct_spans |-> <<>>,
                    correct2prediction |-> <<>>]
  /\ xqa_metrics = None

\* No LossHook exists.
LossAtRest ==
  /\ loss_hook = None
  /\ loss_ret = [call |-> "none"]

\* at_test_time is not being called.
KBPAtRest ==
  /\ kbp_q = None
  /\ kbp_acc = [mean_ap |-> <<0, 1>>, wmap |-> <<0, 1>>, qd |-> 0, md |-> 0,
                av_p |-> <<0, 1>>, q_answers_len |-> 0]
  /\ kbp_result = None

\* No EvalHook is followed over a training run.
HookAtRest ==
  /\ hook = None
  /\ hook_run = None
  /\ hook_file = <<>>
  /\ hook_log = <<>>

LaterAtRest == LossAtRest /\ KBPAtRest /\ HookAtRest

\* ------------------------------------------------------------------ Init
\* TFModelModule.__init__ (lines 19-28): _tensors and _placeholders are None,
\* the other fields are not set yet.  The graph is empty, no reader exists.
Init ==
  /\ input_ports \in InputPortChoices
  /\ global_variables = {}
  /\ trainable_variables = {}
  /\ tensors = None
  /\ placeholders = None
  /\ training_variables = None
  /\ variables = None
  /\ saver = None
  /\ reader = "absent"
  /\ is_setup = FALSE
  /\ last_op = NoOp
  /\ pc = "idle"
  /\ max_epochs = 0 /\ nbatches = 0 /\ nhooks = 0
  /\ epoch = 0 /\ batch_no = 0 /\ hook_no = 0
  /\ loss_tensor = None
  /\ train_init = None
  /\ entered_unset = FALSE
  /\ last_feed = None
  /\ log = <<>>
  /\ ClipAtRest
  /\ SharedAtRest
  /\ PortsAtRest
  /\ EvalAtRest
  /\ XQAAtRest
  /\ LaterAtRest

\* The reader's variables while another component is looked at on its own:
\* a freshly constructed model module, no reader.
ReaderAtRest ==
  /\ input_ports = {"question"}
  /\ global_variables = {} /\ trainable_variables = {}
  /\ tensors = None /\ placeholders = None
  /\ training_variables = None /\ variables = None /\ saver = None
  /\ reader = "absent" /\ is_setup = FALSE
  /\ last_op = NoOp
  /\ pc = "idle"
  /\ max_epochs = 0 /\ nbatches = 0 /\ nhooks = 0
  /\ epoch = 0 /\ batch_no = 0 /\ hook_no = 0
  /\ loss_tensor = None /\ train_init = None /\ entered_unset = FALSE
  /\ last_feed = None /\ log = <<>>

\* The other components while one is looked at on its own.
ClipAlone ==
  /\ ReaderAtRest /\ SharedAtRest /\ PortsAtRest /\ EvalAtRest /\ XQAAtRest
  /\ LaterAtRest
SharedAlone ==
  /\ ReaderAtRest /\ ClipAtRest /\ PortsAtRest /\ EvalAtRest /\ XQAAtRest
  /\ LaterAtRest
PortsAlone ==
  /\ ReaderAtRest /\ ClipAtRest /\ SharedAtRest /\ EvalAtRest /\ XQAAtRest
  /\ LaterAtRest
EvalAlone ==
  /\ ReaderAtRest /\ ClipAtRest /\ SharedAtRest /\ PortsAtRest /\ XQAAtRest
  /\ LaterAtRest
XQAAlone ==
  /\ ReaderAtRest /\ ClipAtRest /\ SharedAtRest /\ PortsAtRest /\ EvalAtRest
  /\ LaterAtRest
EarlierAtRest ==
  /\ ReaderAtRest /\ ClipAtRest /\ SharedAtRest /\ PortsAtRest /\ EvalAtRest
  /\ XQAAtRest
LossAlone == EarlierAtRest /\ KBPAtRest /\ HookAtRest
KBPAlone == EarlierAtRest /\ LossAtRest /\ HookAtRest
HookAlone == EarlierAtRest /\ LossAtRest /\ KBPAtRest

\* No train call is running and no operation's outcome is pending.
Idle == pc = "idle" /\ last_op.op = "none"

\* The caller of setup, store, load or __call__ goes on with the result (or
\* the exception).
Return ==
  /\ pc = "idle"
  /\ last_op.op # "none"
  /\ last_op' = NoOp
  /\ UNCHANGED <<besides, input_ports, graphVars, moduleVars, reader, is_setup,
                 trainVars>>

\* ------------------------------------------------------------------ graph
\* The next k variables TensorFlow creates.
NewVariables(k) ==
  (Cardinality(global_variables) + 1) .. (Cardinality(global_variables) + k)

\* How many variables one operation may create here.
Creatable == 0 .. (IF MaxVars - Cardinality(global_variables) < MaxCreate
                   THEN MaxVars - Cardinality(global_variables) ELSE MaxCreate)

\* A module set up earlier in the same graph creates a variable of its own.
OtherModuleCreatesVariable ==
  /\ Idle
  /\ Cardinality(global_variables) < MaxVars
  /\ \E is_trainable \in BOOLEAN :
       /\ global_variables' = global_variables \cup NewVariables(1)
       /\ trainable_variables' =
            trainable_variables \cup
              (IF is_trainable THEN NewVariables(1) ELSE {})
  /\ UNCHANGED <<besides, input_ports, moduleVars, reader, is_setup, last_op,
                 trainVars>>

\* ------------------------------------------------------------------ setup
\* self._placeholders at the end of setup (lines 96/100, 104, 109-110/116-117).
SetupPlaceholders(is_training) ==
  LET inputs == Bind(input_ports, "placeholder")
      with_outputs == Update(inputs, Bind(output_ports, "output"))
  IN IF is_training
     THEN Update(inputs,
                 Bind({p \in training_input_ports :
                         p \notin DOMAIN inputs /\ p \notin DOMAIN with_outputs},
                      "placeholder"))
     ELSE inputs

\* self._tensors at the end of setup (lines 96/100, 105, 111/118, 122).
SetupTensors(is_training) ==
  LET inputs == Bind(input_ports, "placeholder")
      with_outputs == Update(inputs, Bind(output_ports, "output"))
  IN IF is_training
     THEN Update(Update(with_outputs, SetupPlaceholders(TRUE)),
                 Bind(training_output_ports, "training_output"))
     ELSE with_outputs

\* Mutant of OwnVariables: the variables that existed before are not taken out.
OwnVariables_All(after, before) == after

\* The variables setup registers as its own: those of `after` that are not
\* in `before` (lines 123 and 125).
OwnVariables(after, before) == after \ before

\* TFModelModule.setup(is_training) (lines 85-126).  create_output and
\* create_training_output are abstract: they create the variables `created`,
\* of which `created_trainable` are trainable.  The last line runs the
\* initializers of self.variables.
setup(is_training, created, created_trainable) ==
  LET old_train_variables == trainable_variables
      old_variables == global_variables
  IN
  /\ global_variables' = global_variables \cup created
  /\ trainable_variables' = trainable_variables \cup created_trainable
  /\ tensors' = Some(SetupTensors(is_training))
  /\ placeholders' = Some(SetupPlaceholders(is_training))
  /\ training_variables' =
       Some(OwnVariables(trainable_variables', old_train_variables))
  /\ saver' = training_variables'
  /\ variables' = Some(OwnVariables(global_variables', old_variables))
  /\ last_op' = SetupOp(is_training, old_variables, created, Get(variables'),
                        ~IsNone(tensors))

\* A direct call of model_module.setup.
Setup ==
  /\ Idle
  /\ \E is_training \in BOOLEAN, k \in Creatable :
       \E created_trainable \in SUBSET NewVariables(k) :
         setup(is_training, NewVariables(k), created_trainable)
  /\ UNCHANGED <<besides, input_ports, reader, is_setup, trainVars>>

\* TFModelModule.store (lines 136-137): the saver writes its variables.
Store ==
  /\ Idle
  /\ ~IsNone(saver)
  /\ last_op' = StoreOp(Get(saver))
  /\ UNCHANGED <<besides, input_ports, graphVars, moduleVars, reader, is_setup,
                 trainVars>>

\* TFModelModule.load (lines 139-140): the saver restores its variables.
Load ==
  /\ Idle
  /\ ~IsNone(saver)
  /\ last_op' = LoadOp(Get(saver))
  /\ UNCHANGED <<besides, input_ports, graphVars, moduleVars, reader, is_setup,
                 trainVars>>

\* ------------------------------------------------------------------ __call__
\* The goal lists and batches a caller passes (inputs of the model).
GoalPorts == {"candidate_scores", "loss", "sample_id", "embedded_question_flat"}
GoalLists == {G \in SUBSET GoalPorts : Cardinality(G) <= MaxGoals}
GoalArguments == {None} \cup {Some(G) : G \in GoalLists}

BatchKeyChoices == {{"question", "sample_id"},
                    {"question", "multiple_support", "sample_id", "target_index",
                     "candidate_scores"}}
Batches == {[p \in K |-> v] : K \in BatchKeyChoices, v \in Values}

\* TFModelModule.convert_to_feed_dict (lines 150-152): the placeholders'
\* ports that the mapping holds; a placeholder whose port is missing from
\* the mapping is skipped.
convert_to_feed_dict(mapping) ==
  {port \in DOMAIN Get(placeholders) : port \in DOMAIN mapping}

\* `goal_ports or self.output_ports` (line 40): None and the empty list both
\* select the output ports.
EffectiveGoals(goal_ports) ==
  IF IsNone(goal_ports) \/ Get(goal_ports) = {} THEN output_ports
  ELSE Get(goal_ports)

\* The goal ports whose tensors are fetched (lines 42-43 and 46).
FetchedPorts(goals) ==
  {p \in goals : p \in output_ports \/ p \in training_output_ports}

\* The placeholders a fetched tensor is computed from: create_output gets
\* the input ports' tensors, create_training_output the training input
\* ports' tensors, which are placeholders or outputs.
Needs(p) ==
  LET kind == Get(tensors)[p] IN
  IF kind = "placeholder" THEN {p}
  ELSE IF kind = "output" THEN input_ports
  ELSE input_ports \cup
       {q \in training_input_ports : q \in DOMAIN Get(placeholders)}

\* tf.Session.run(fetches, feed_dict): raises when a placeholder the fetches
\* are computed from is not fed; a computation may also fail on its own.
RunOutcomes(fetched, feed) ==
  IF fetched = {} THEN {"ok"}
  ELSE IF \E p \in fetched : ~(Needs(p) \subseteq feed) THEN {"error"}
  ELSE {"ok", "error"}

\* Mutant of PassThrough: every port of the batch is copied, asked for or not.
PassThrough_WholeBatch(ret, goals, batch) ==
  Update(ret, [p \in {q \in DOMAIN batch : q \notin DOMAIN ret} |-> batch[p]])

\* Mutant of PassThrough: nothing is copied from the batch.
PassThrough_Nothing(ret, goals, batch) == ret

\* Lines 48-50: a goal port not yet in ret and present in the batch is
\* copied from the batch.
PassThrough(ret, goals, batch) ==
  Update(ret, [p \in {q \in goals : q \notin DOMAIN ret /\ q \in DOMAIN batch}
                 |-> batch[p]])

\* TFModelModule.__call__(batch, goal_ports) (lines 30-52).
Call ==
  /\ Idle
  /\ \E batch \in Batches, goal_ports \in GoalArguments :
       LET goals == EffectiveGoals(goal_ports)
           given == ~IsNone(goal_ports)
           asked == IF given THEN Get(goal_ports) ELSE {}
           raised == CallOp("raised", given, asked, batch, EmptyDict)
       IN
       \* line 41: self.placeholders is None before setup
       IF IsNone(placeholders) THEN last_op' = raised
       \* line 42: self.tensors[p] of a port that setup did not bind
       ELSE IF ~(FetchedPorts(goals) \subseteq DOMAIN Get(tensors))
       THEN last_op' = raised
       ELSE \E outcome \in RunOutcomes(FetchedPorts(goals),
                                       convert_to_feed_dict(batch)) :
              IF outcome = "error" THEN last_op' = raised
              ELSE \E outputs \in [FetchedPorts(goals) -> Values] :
                     last_op' = CallOp("returned", given, asked, batch,
                                       PassThrough(outputs, goals, batch))
  /\ UNCHANGED <<besides, input_ports, graphVars, moduleVars, reader, is_setup,
                 trainVars>>

\* ------------------------------------------------------------------ reader
\* The ports of a batch the input module's batch_generator yields: one array
\* per declared output port.
TrainingBatchPorts == im_output_ports

\* Mutant of PortsCompose: the constructor does not check the ports.
PortsCompose_Unchecked == TRUE

\* Composition check of the reader's constructor: the model module's input
\* ports must be among the input module's output ports.
PortsCompose == input_ports \subseteq im_output_ports

\* JTReader construction over the three modules.
ComposeReader ==
  /\ Idle
  /\ reader = "absent"
  /\ reader' = IF PortsCompose THEN "composed" ELSE "rejected"
  /\ UNCHANGED <<besides, input_ports, graphVars, moduleVars, is_setup, last_op,
                 trainVars>>

\* JTReader.setup_from_data(data, is_training): fits the input module, sets
\* up the model module, then the output module, and marks the reader set up.
setup_from_data(is_training) ==
  /\ \E k \in Creatable :
       \E created_trainable \in SUBSET NewVariables(k) :
         setup(is_training, NewVariables(k), created_trainable)
  /\ is_setup' = TRUE

SetupFromData ==
  /\ Idle
  /\ reader = "composed"
  /\ \E is_training \in BOOLEAN : setup_from_data(is_training)
  /\ UNCHANGED <<besides, input_ports, reader, trainVars>>

\* ------------------------------------------------------------------ train
\* Events of one train call: <<kind, epoch, batch, hook>>.
RunEvent(i, j) == <<"run", i, j, 0>>
IterationEndEvent(i, j, h) == <<"at_iteration_end", i, j, h>>
EpochEndEvent(i, h) == <<"at_epoch_end", i, 0, h>>

\* The number of batches one iteration over `batches` yields in epoch i:
\* batch_generator returns a restartable sequence, so every epoch yields all
\* the batches of the training set.
BatchesInEpoch(i) == nbatches

\* Mutant of NeedsSetup: train never sets the reader up.
NeedsSetup_Never == FALSE

\* Line 190: train sets the reader up itself when it is not set up yet.
NeedsSetup == ~is_setup

\* TFReader.train, lines 189-192: set the reader up from the training set
\* unless it is set up already.
TrainEnter ==
  /\ Idle
  /\ reader = "composed"
  /\ \E e \in 0 .. MaxEpochs, b \in 0 .. MaxBatches, h \in 0 .. MaxHooks :
       max_epochs' = e /\ nbatches' = b /\ nhooks' = h
  /\ IF NeedsSetup
     THEN setup_from_data(TRUE)
     ELSE UNCHANGED <<graphVars, moduleVars, is_setup, last_op>>
  /\ entered_unset' = ~is_setup
  /\ pc' = "prepare"
  /\ epoch' = 0 /\ batch_no' = 0 /\ hook_no' = 0
  /\ loss_tensor' = None /\ train_init' = None /\ last_feed' = None
  /\ log' = <<>>
  /\ UNCHANGED <<besides, input_ports, reader>>

\* Mutant of NonModelVariables: every global variable is initialised.
NonModelVariables_All(globals) == globals

\* Line 213: the global variables that are not the model module's.
NonModelVariables(globals) == {v \in globals : v \notin Get(variables)}

\* TFReader.train, lines 193-215: the loss tensor, the optimizer's update
\* (which creates the optimizer's own variables) and the initialisation of
\* the variables that are not the model module's.  range(1, max_epochs + 1)
\* is empty for max_epochs = 0.
TrainPrepare ==
  /\ pc = "prepare"
  /\ last_op' = NoOp
  /\ IF LossPort \notin DOMAIN Get(tensors)
     THEN \* line 195: KeyError
          /\ pc' = "failed"
          /\ UNCHANGED <<graphVars, loss_tensor, train_init, epoch>>
     ELSE /\ loss_tensor' = Some(Get(tensors)[LossPort])
          /\ \E k \in Creatable :
               /\ global_variables' = global_variables \cup NewVariables(k)
               /\ UNCHANGED trainable_variables
               /\ train_init' = Some(NonModelVariables(global_variables'))
          /\ pc' = IF max_epochs >= 1 THEN "batch" ELSE "done"
          /\ epoch' = IF max_epochs >= 1 THEN 1 ELSE 0
  /\ UNCHANGED <<besides, input_ports, moduleVars, reader, is_setup, max_epochs,
                 nbatches, nhooks, batch_no, hook_no, entered_unset,
                 last_feed, log>>

\* Mutant of AfterEpoch: the epoch loop ends one epoch early
\* (range(1, max_epochs)).
AfterEpoch_OneShort ==
  IF epoch + 1 < max_epochs
  THEN pc' = "batch" /\ epoch' = epoch + 1 /\ batch_no' = 0
  ELSE pc' = "done" /\ UNCHANGED <<epoch, batch_no>>

\* After the post-epoch hooks (or with no hooks): the next epoch, or the end
\* of train (lines 216 and 225).
AfterEpoch ==
  IF epoch < max_epochs
  THEN pc' = "batch" /\ epoch' = epoch + 1 /\ batch_no' = 0
  ELSE pc' = "done" /\ UNCHANGED <<epoch, batch_no>>

\* Mutant of RunBatch: the iteration-end callbacks sit in a `finally`, so the
\* first hook is called for a batch whose computation failed.
RunBatch_HooksInFinally ==
  /\ pc = "batch"
  /\ batch_no < BatchesInEpoch(epoch)
  /\ LET batch == Bind(TrainingBatchPorts, 0)
         feed == convert_to_feed_dict(batch)
     IN \E outcome \in RunOutcomes({LossPort}, feed) :
          /\ last_feed' = Some(feed)
          /\ IF outcome = "ok"
             THEN /\ batch_no' = batch_no + 1
                  /\ log' = Append(log, RunEvent(epoch, batch_no + 1))
                  /\ pc' = IF nhooks >= 1 THEN "iteration_hooks" ELSE "batch"
                  /\ hook_no' = 1
             ELSE /\ pc' = "failed"
                  /\ log' = Append(log,
                                   IterationEndEvent(epoch, batch_no + 1, 1))
                  /\ UNCHANGED <<batch_no, hook_no>>
  /\ UNCHANGED <<besides, input_ports,
                 graphVars, moduleVars, reader, is_setup, last_op,
                 max_epochs, nbatches, nhooks, epoch, loss_tensor, train_init,
                 entered_unset>>

\* Lines 217-219: the next batch of the epoch is bound to the placeholders
\* and run; an exception of session.run leaves train.
RunBatch ==
  /\ pc = "batch"
  /\ batch_no < BatchesInEpoch(epoch)
  /\ LET batch == Bind(TrainingBatchPorts, 0)
         feed == convert_to_feed_dict(batch)
     IN \E outcome \in RunOutcomes({LossPort}, feed) :
          /\ last_feed' = Some(feed)
          /\ IF outcome = "ok"
             THEN /\ batch_no' = batch_no + 1
                  /\ log' = Append(log, RunEvent(epoch, batch_no + 1))
                  /\ pc' = IF nhooks >= 1 THEN "iteration_hooks" ELSE "batch"
                  /\ hook_no' = 1
             ELSE /\ pc' = "failed"
                  /\ UNCHANGED <<batch_no, log, hook_no>>
  /\ UNCHANGED <<besides, input_ports,
                 graphVars, moduleVars, reader, is_setup, last_op,
                 max_epochs, nbatches, nhooks, epoch, loss_tensor, train_init,
                 entered_unset>>

\* Mutant of IterationHook: the hooks are called in reverse registration order.
IterationHook_Reversed ==
  /\ pc = "iteration_hooks"
  /\ log' = Append(log, IterationEndEvent(epoch, batch_no, nhooks + 1 - hook_no))
  /\ IF hook_no < nhooks
     THEN hook_no' = hook_no + 1 /\ pc' = pc
     ELSE hook_no' = 1 /\ pc' = "batch"
  /\ UNCHANGED <<besides, input_ports,
                 graphVars, moduleVars, reader, is_setup, last_op,
                 max_epochs, nbatches, nhooks, epoch, batch_no, loss_tensor,
                 train_init, entered_unset, last_feed>>

\* Lines 220-221: the next hook's at_iteration_end(i, current_loss).
IterationHook ==
  /\ pc = "iteration_hooks"
  /\ log' = Append(log, IterationEndEvent(epoch, batch_no, hook_no))
  /\ IF hook_no < nhooks
     THEN hook_no' = hook_no + 1 /\ pc' = pc
     ELSE hook_no' = 1 /\ pc' = "batch"
  /\ UNCHANGED <<besides, input_ports,
                 graphVars, moduleVars, reader, is_setup, last_op,
                 max_epochs, nbatches, nhooks, epoch, batch_no, loss_tensor,
                 train_init, entered_unset, last_feed>>

\* The inner loop is exhausted (line 217): on to the post-epoch hooks.
EpochBatchesDone ==
  /\ pc = "batch"
  /\ batch_no >= BatchesInEpoch(epoch)
  /\ IF nhooks >= 1
     THEN pc' = "epoch_hooks" /\ hook_no' = 1 /\ UNCHANGED <<epoch, batch_no>>
     ELSE AfterEpoch /\ UNCHANGED hook_no
  /\ UNCHANGED <<besides, input_ports,
                 graphVars, moduleVars, reader, is_setup, last_op,
                 max_epochs, nbatches, nhooks, loss_tensor, train_init,
                 entered_unset, last_feed, log>>

\* Lines 224-225: the next hook's at_epoch_end(i).
EpochHook ==
  /\ pc = "epoch_hooks"
  /\ log' = Append(log, EpochEndEvent(epoch, hook_no))
  /\ IF hook_no < nhooks
     THEN hook_no' = hook_no + 1 /\ UNCHANGED <<pc, epoch, batch_no>>
     ELSE hook_no' = 1 /\ AfterEpoch
  /\ UNCHANGED <<besides, input_ports,
                 graphVars, moduleVars, reader, is_setup, last_op,
                 max_epochs, nbatches, nhooks, loss_tensor, train_init,
                 entered_unset, last_feed>>

\* train returns, or its exception reaches the caller.
TrainReturn ==
  /\ pc \in {"done", "failed"}
  /\ pc' = "idle"
  /\ max_epochs' = 0 /\ nbatches' = 0 /\ nhooks' = 0
  /\ epoch' = 0 /\ batch_no' = 0 /\ hook_no' = 0
  /\ loss_tensor' = None /\ train_init' = None /\ last_feed' = None
  /\ entered_unset' = FALSE
  /\ log' = <<>>
  /\ UNCHANGED <<besides, input_ports,
                 graphVars, moduleVars, reader, is_setup, last_op>>

\* ------------------------------------------------------------------ spec
Next ==
  \/ OtherModuleCreatesVariable
  \/ Setup
  \/ Store
  \/ Load
  \/ Call
  \/ Return
  \/ ComposeReader
  \/ SetupFromData
  \/ TrainEnter
  \/ TrainPrepare
  \/ RunBatch
  \/ IterationHook
  \/ EpochBatchesDone
  \/ EpochHook
  \/ TrainReturn

Spec == Init /\ [][Next]_vars

\* ------------------------------------------------------------------ claims
\* The hook callbacks among the events of the train call.
HookCalls == SelectSeq(log, LAMBDA e : e[1] # "run")

\* The hook callbacks of a complete run of E epochs of B batches with H
\* hooks, epoch-major and batch-minor: per epoch, the at_iteration_end calls
\* of batches 1..B (each for hooks 1..H), then the at_epoch_end calls.
ExpectedHookCalls(E, B, H) ==
  [k \in 1 .. E * (B * H + H) |->
     LET i == ((k - 1) \div (B * H + H)) + 1
         r == (k - 1) % (B * H + H)
     IN IF r < B * H
        THEN IterationEndEvent(i, (r \div H) + 1, (r % H) + 1)
        ELSE EpochEndEvent(i, r - B * H + 1)]

IsPrefix(a, b) == Len(a) <= Len(b) /\ \A k \in 1 .. Len(a) : a[k] = b[k]

CountCalls(kind, h) ==
  Cardinality({k \in 1 .. Len(log) : log[k][1] = kind /\ log[k][4] = h})

InLoop == pc \in {"batch", "iteration_hooks", "epoch_hooks"}

\* C1: during train the hook callbacks made so far are a prefix of the
\* epoch-major, batch-minor sequence (epochs 1..E, within an epoch the
\* iteration-end calls of every batch, then the epoch-end calls), and when
\* train has completed every hook has had exactly E*B at_iteration_end calls
\* and exactly E at_epoch_end calls.
C1_HookCallsEpochMajor ==
  /\ (InLoop \/ pc = "done") =>
       IsPrefix(HookCalls, ExpectedHookCalls(max_epochs, nbatches, nhooks))
  /\ pc = "done" =>
       /\ HookCalls = ExpectedHookCalls(max_epochs, nbatches, nhooks)
       /\ \A h \in 1 .. nhooks :
            /\ CountCalls("at_iteration_end", h) = max_epochs * nbatches
            /\ CountCalls("at_epoch_end", h) = max_epochs

\* C1 witness: a completed run of 2 epochs of 2 batches with a hook that was
\* called 4 times at iteration end and twice at epoch end.
C1_Witness ==
  /\ pc = "done" /\ max_epochs = 2 /\ nbatches = 2 /\ nhooks >= 1
  /\ CountCalls("at_iteration_end", 1) = 4
  /\ CountCalls("at_epoch_end", 1) = 2

\* C2: at every callback point the hooks are called one after the other in
\* registration order (hook h directly after hook h-1, the first
\* iteration-end hook directly after the batch's computation), and when the
\* computation of a batch starts every hook's iteration-end callback of every
\* earlier batch has returned.
C2_HooksInOrderNoOverlap ==
  \A k \in 1 .. Len(log) :
    LET e == log[k] IN
    /\ (e[1] # "run" /\ e[4] > 1) =>
         (k > 1 /\ log[k - 1] = <<e[1], e[2], e[3], e[4] - 1>>)
    /\ (e[1] = "at_iteration_end" /\ e[4] = 1) =>
         (k > 1 /\ log[k - 1] = RunEvent(e[2], e[3]))
    /\ e[1] = "run" =>
         \A m \in 1 .. (k - 1) :
           log[m][1] = "run" =>
             \A h \in 1 .. nhooks :
               \E n \in (m + 1) .. (k - 1) :
                 log[n] = IterationEndEvent(log[m][2], log[m][3], h)

\* C2 witness: with two hooks registered, the second batch of an epoch has
\* been computed after both hooks' callbacks for the first.
C2_Witness ==
  /\ nhooks = 2
  /\ \E k \in 1 .. Len(log) :
       /\ log[k] = RunEvent(1, 2)
       /\ k > 2
       /\ log[k - 2] = IterationEndEvent(1, 1, 1)
       /\ log[k - 1] = IterationEndEvent(1, 1, 2)

Returned == last_op.op = "call" /\ last_op.status = "returned"

\* The ports __call__ can serve for a batch.
Servable(batch) ==
  output_ports \cup training_output_ports \cup DOMAIN batch

\* C3 (as claimed): whenever __call__ returns for a given list of goal ports,
\* the key set of the result is the requested goal ports intersected with
\* (output ports, training-output ports, ports of the batch).
C3_Original ==
  (Returned /\ last_op.given) =>
    DOMAIN last_op.ret = last_op.goals \cap Servable(last_op.batch)

\* C3 (amended): whenever __call__ returns, the key set of the result is the
\* goal ports intersected with (output ports, training-output ports, ports
\* of the batch), where an empty goal list, like an omitted one, stands for
\* the output ports.
C3_KeysAreServableGoals ==
  Returned =>
    LET goals == IF last_op.goals = {} THEN output_ports ELSE last_op.goals
    IN DOMAIN last_op.ret = goals \cap Servable(last_op.batch)

\* C3 witness: a call for a port of the batch and an undeclared port has
\* returned the port of the batch only.
C3_Witness ==
  /\ Returned
  /\ last_op.goals = {"sample_id", "embedded_question_flat"}
  /\ DOMAIN last_op.ret = {"sample_id"}

\* C4 (as claimed): every goal port present in the batch is returned with
\* the value the batch holds for it, output and training-output ports
\* included.
C4_Original ==
  (Returned /\ last_op.given) =>
    \A p \in last_op.goals \cap DOMAIN last_op.batch :
      p \in DOMAIN last_op.ret /\ last_op.ret[p] = last_op.batch[p]

\* C4 (amended): every goal port present in the batch that is neither an
\* output port nor a training-output port is returned with the value the
\* batch holds for it.
C4_PassThroughUnlessComputed ==
  (Returned /\ last_op.given) =>
    \A p \in (last_op.goals \cap DOMAIN last_op.batch)
               \ (output_ports \cup training_output_ports) :
      p \in DOMAIN last_op.ret /\ last_op.ret[p] = last_op.batch[p]

\* C4 witness: a call asked for an output port and for a port of the batch;
\* the port of the batch came back with the batch's value, which differs
\* from the computed output.
C4_Witness ==
  /\ Returned
  /\ last_op.goals = {"sample_id", "candidate_scores"}
  /\ last_op.batch["sample_id"] = 1
  /\ last_op.ret["sample_id"] = 1
  /\ last_op.ret["candidate_scores"] = 0

\* C5 (as claimed): a call that asks for a goal port which is neither an
\* output port, nor a training-output port, nor in the batch raises.
C5_UnservableGoalRaises ==
  (last_op.op = "call" /\ ~(last_op.goals \subseteq Servable(last_op.batch)))
    => last_op.status = "raised"

\* C6: a reader is never composed over a model module with an input port
\* that the input module does not produce: no reader of such modules is
\* set up or trains, and every batch train binds feeds all the input ports'
\* placeholders.
C6_MissingInputPortRejected ==
  /\ ~(input_ports \subseteq im_output_ports) =>
       (reader # "composed" /\ ~is_setup /\ pc = "idle" /\ IsNone(last_feed))
  /\ ~IsNone(last_feed) => input_ports \subseteq Get(last_feed)

\* C6 witness: the composition of a reader whose model module wants a port
\* the input module does not produce has been rejected.
C6_Witness ==
  reader = "rejected" /\ "multiple_support" \in input_ports \ im_output_ports

\* C7 (as claimed): setup never runs on a module that is configured already.
C7_SetupNotReentered ==
  ~(last_op.op = "setup" /\ last_op.reentered)

\* C8 (as claimed): a model module call before setup raises, and a train call
\* entered on a reader that is not set up raises without initialising or
\* running anything.
C8_Original ==
  /\ (last_op.op = "call" /\ IsNone(tensors)) => last_op.status = "raised"
  /\ entered_unset =>
       (pc \in {"prepare", "failed"} /\ IsNone(train_init) /\ IsNone(last_feed))

\* C8 (amended): a model module call before setup raises; a train call
\* entered on a reader that is not set up first sets it up for training
\* (setup_from_data with is_training) and then goes on; no call returns and
\* no train call proceeds on a module without tensors and placeholders.
C8_NothingRunsBeforeSetup ==
  /\ (last_op.op = "call" /\ IsNone(tensors)) => last_op.status = "raised"
  /\ Returned => (~IsNone(tensors) /\ ~IsNone(placeholders))
  /\ pc # "idle" => (is_setup /\ ~IsNone(tensors) /\ ~IsNone(placeholders))
  /\ (entered_unset /\ pc = "prepare") =>
       (last_op.op = "setup" /\ last_op.is_training)

\* C8 witness: a train call entered on a reader that was not set up has run
\* its batches to the end.
C8_Witness ==
  entered_unset /\ pc = "done" /\ Len(log) > 0

\* C9: right after setup the registered sets are exactly the variables that
\* call created (none of those that existed before), the saver covers the
\* trainable ones among them, and the initializers run are theirs; store
\* and load touch the module's own trainable variables only.
C9_OwnVariablesOnly ==
  /\ last_op.op = "setup" =>
       /\ Get(variables) = last_op.created
       /\ Get(variables) \cap last_op.old = {}
       /\ Get(training_variables) = last_op.created \cap trainable_variables
       /\ Get(training_variables) \cap last_op.old = {}
       /\ Get(saver) = Get(training_variables)
       /\ last_op.initialised = last_op.created
  /\ last_op.op = "store" =>
       (last_op.saved = Get(training_variables)
          /\ last_op.saved \subseteq Get(variables))
  /\ last_op.op = "load" =>
       (last_op.restored = Get(training_variables)
          /\ last_op.restored \subseteq Get(variables))

\* C9 witness: a setup call has created variables, a trainable one among
\* them, in a graph that already held a trainable variable.
C9_Witness ==
  /\ last_op.op = "setup"
  /\ last_op.old \cap trainable_variables # {}
  /\ Get(training_variables) # {}
  /\ Get(variables) # Get(training_variables)

\* C10: before the first batch train has initialised exactly the global
\* variables that are not the model module's, none of the model module's.
C10_TrainInitialisesOthersOnly ==
  /\ (InLoop \/ pc = "done") => ~IsNone(train_init)
  /\ ~IsNone(train_init) =>
       /\ Get(train_init) = global_variables \ Get(variables)
       /\ Get(train_init) \cap Get(variables) = {}

\* C10 witness: train is in its loop, having initialised some variables but
\* not the model module's.
C10_Witness ==
  /\ InLoop
  /\ Get(train_init) # {}
  /\ Get(variables) # {}

\* The computation of batch batch_no + 1 of the current epoch has failed.
BatchFailed == pc = "failed" /\ ~IsNone(last_feed)

\* C12: when the computation of a batch has failed, the events of the train
\* call hold nothing of the failing batch (its computation did not complete,
\* no hook's iteration-end callback), nothing of a later batch, no epoch-end
\* callback of the current epoch and nothing of a later epoch; and the only
\* step a failed train call takes is to leave train with its exception: no
\* batch is run, none again, and no hook is called.
C12_FailingBatchAborts ==
  /\ [](BatchFailed =>
         \A k \in 1 .. Len(log) :
           /\ log[k][2] <= epoch
           /\ log[k][2] = epoch =>
                (log[k][1] # "at_epoch_end" /\ log[k][3] <= batch_no))
  /\ [][pc = "failed" => (pc' = "idle" /\ log' = <<>>)]_vars

\* C12 witness: the second batch of the second epoch has failed with two
\* hooks registered, after the callbacks of the batches before it.
C12_Witness ==
  /\ BatchFailed
  /\ epoch = 2 /\ batch_no = 1 /\ nhooks = 2
  /\ log[Len(log)] = IterationEndEvent(2, 1, 2)

ClipValues ==
  {NoClip}
    \cup {[kind |-> "float", v |-> <<c>>] : c \in 0 .. MaxClip}
    \cup {[kind |-> "tuple", v |-> <<0 - c, c>>] : c \in 1 .. MaxClip}

\* The functions a caller may pass as clip_op.
ClipOps == {"clip_by_value", "clip_by_norm", "clip_by_average_norm"}

GradKinds == {"None", "Tensor", "IndexedSlices"}

\* (grad, var) for variable number i with an unclipped gradient of kind k.
GradAndVar(k, i) == [grad |-> [kind |-> k, clipped |-> <<>>], var |-> i]

\* The lists optimizer.compute_gradients(loss) may return: one pair per
\* trainable variable.
GradientLists ==
  UNION {{[i \in 1 .. n |-> GradAndVar(kinds[i], i)] :
            kinds \in [1 .. n -> GradKinds]} : n \in 0 .. MaxGrads}

\* bool(clip) of `if clip:` (line 200): None, 0.0 and () are false.
Truthy(c) ==
  /\ c.kind # "None"
  /\ Len(c.v) > 0
  /\ (c.kind = "float" => c.v[1] # 0)

\* `... for grad, var in gradients if grad` (lines 203 and 206): the pairs
\* whose gradient is not None.
Kept(gs) == SelectSeq(gs, LAMBDA gv : gv.grad.kind # "None")

\* bool(grad) of a Tensor is the Tensor's __bool__, which is TensorFlow's:
\* it may raise TypeError.
MayRaiseOnBool(gs) == \E k \in 1 .. Len(gs) : gs[k].grad.kind = "Tensor"

\* tf.<op>(grad, args...) applied to the gradient of every pair of gs.
ClipAll(gs, op, args) ==
  [k \in 1 .. Len(gs) |->
     [grad |-> [kind |-> gs[k].grad.kind,
                clipped |-> Append(gs[k].grad.clipped,
                                   [op |-> op, args |-> args])],
      var |-> gs[k].var]]

MinOp(op, gs) == Some([op |-> op, gradients |-> gs])
Raised == Some([op |-> "raised", gradients |-> <<>>])

\* A train call reaches line 200 with some clip and clip_op.
ClipInit ==
  /\ ClipAlone
  /\ clip \in ClipValues
  /\ clip_op \in ClipOps
  /\ gradients = None
  /\ min_op = None

\* Line 201: gradients = optimizer.compute_gradients(loss).
ComputeGradients ==
  /\ Truthy(clip)
  /\ IsNone(gradients) /\ IsNone(min_op)
  /\ \E gs \in GradientLists : gradients' = Some(gs)
  /\ UNCHANGED <<notClip, clip, clip_op, min_op>>

\* Lines 202-207: the list handed to apply_gradients.  tf.clip_by_value gets
\* clip[0] and clip[1], tf.clip_by_norm gets clip; with any other clip_op
\* the list stays as compute_gradients returned it.
ClippedGradients(gs) ==
  IF clip_op = "clip_by_value"
  THEN ClipAll(Kept(gs), "clip_by_value", <<clip.v[1], clip.v[2]>>)
  ELSE IF clip_op = "clip_by_norm"
  THEN ClipAll(Kept(gs), "clip_by_norm", clip.v)
  ELSE gs

\* Lines 202-208: clip the gradients and build the update from them.
\* clip[0] of a number raises TypeError as soon as a gradient is kept.
ClipAndApply ==
  /\ ~IsNone(gradients) /\ IsNone(min_op)
  /\ LET gs == Get(gradients)
         by_value == clip_op = "clip_by_value"
         by_norm == clip_op = "clip_by_norm"
     IN \/ /\ by_value \/ by_norm
           /\ MayRaiseOnBool(gs)
           /\ min_op' = Raised
           /\ UNCHANGED gradients
        \/ /\ by_value /\ clip.kind = "float" /\ Len(Kept(gs)) > 0
           /\ min_op' = Raised
           /\ UNCHANGED gradients
        \/ /\ ~(by_value /\ clip.kind = "float" /\ Len(Kept(gs)) > 0)
           /\ gradients' = Some(ClippedGradients(gs))
           /\ min_op' = MinOp("apply_gradients", Get(gradients'))
  /\ UNCHANGED <<notClip, clip, clip_op>>

\* Line 210: min_op = optimizer.minimize(loss), which computes the gradients
\* and applies them as they are.
Minimize ==
  /\ ~Truthy(clip)
  /\ IsNone(min_op)
  /\ \E gs \in GradientLists : min_op' = MinOp("minimize", gs)
  /\ UNCHANGED <<notClip, clip, clip_op, gradients>>

ClipNext == ComputeGradients \/ ClipAndApply \/ Minimize

ClipSpec == ClipInit /\ [][ClipNext]_vars

\* The update operation has been built.
UpdateBuilt == ~IsNone(min_op) /\ Get(min_op).op # "raised"

\* The clipping schemes applied to a gradient.
Schemes(g) == {g.clipped[k].op : k \in 1 .. Len(g.clipped)}

\* C11 (as claimed): when the update operation has been built and clipping
\* was requested (clip is given and `if clip` takes it as such), it was built
\* by the clipping branch and every gradient it applies went through exactly
\* one of clip_by_value and clip_by_norm, once, whatever clip_op is; when
\* clipping was not requested, no gradient was clipped.
C11_ExactlyOneScheme ==
  UpdateBuilt =>
    LET built == Get(min_op)
        grads == {built.gradients[k].grad : k \in 1 .. Len(built.gradients)}
    IN IF Truthy(clip)
       THEN /\ built.op = "apply_gradients"
            /\ \A g \in grads :
                 g.kind # "None" =>
                   /\ Len(g.clipped) = 1
                   /\ Schemes(g) \subseteq {"clip_by_value", "clip_by_norm"}
       ELSE \A g \in grads : g.clipped = <<>>

\* ------------------------------------------------------------------ shared
\* SharedResources (src/jack/core/shared_resources.py).  A config is a mapping
\* from keys to values, a Vocab a mapping from tokens to ids.  A pickled object
\* is the object itself: pickle restores plain dicts as they were.
ConfigKeys == {"repr_dim"}
Configs == UNION {[K -> Values] : K \in SUBSET ConfigKeys}

Tokens == {"a", "b"}
IsInjective(f) == \A x, y \in DOMAIN f : f[x] = f[y] => x = y
Vocabs ==
  UNION {{f \in [T -> 0 .. (Cardinality(T) - 1)] : IsInjective(f)} :
           T \in SUBSET Tokens}
EmptyVocab == [t \in {} |-> 0]

\* The arguments of SharedResources(vocab, config).
VocabArguments == {None} \cup {Some(v) : v \in Vocabs}
ConfigArguments == {None} \cup {Some(c) : c \in Configs}

\* Line 32: self.config = config or dict().
ConfigOrDict(arg) ==
  IF IsNone(arg) \/ Get(arg) = EmptyConfig THEN EmptyConfig ELSE Get(arg)

SROp(op, status, wrote_config, wrote_vocab) ==
  [op |-> op, status |-> status, wrote_config |-> wrote_config,
   wrote_vocab |-> wrote_vocab]

\* An object as __init__ leaves it (lines 32-33), and whatever artifacts
\* earlier runs left at the path.
SharedInit ==
  /\ SharedAlone
  /\ \E arg \in ConfigArguments : config = ConfigOrDict(arg)
  /\ vocab \in VocabArguments
  /\ files \in [config : {None} \cup {Some([config |-> c]) : c \in Configs},
                vocab : {None} \cup {Some(v) : v \in Vocabs}]
  /\ sr_op = [op |-> "none"]
  /\ stored = None

\* SharedResources.__init__(vocab, config): a fresh object.
SharedResources_init ==
  /\ \E arg \in ConfigArguments : config' = ConfigOrDict(arg)
  /\ vocab' \in VocabArguments
  /\ sr_op' = SROp("__init__", "returned", FALSE, FALSE)
  /\ UNCHANGED <<notShared, files, stored>>

\* Line 43: the attributes that are pickled, all but the vocabulary.
Remaining == [config |-> config]

\* Vocab.store(path): writes the vocabulary's mappings to the path.
Vocab_store(v) == Some(v)

\* SharedResources.store(path) (lines 42-45): the config artifact is written
\* first; then the vocabulary stores itself, which fails when self.vocab is
\* None (AttributeError) or when the write fails.
SharedResources_store ==
  /\ \E vocab_written \in IF IsNone(vocab) THEN {FALSE} ELSE BOOLEAN :
       IF vocab_written
       THEN /\ files' = [config |-> Some(Remaining),
                         vocab |-> Vocab_store(Get(vocab))]
            /\ sr_op' = SROp("store", "returned", TRUE, TRUE)
            /\ stored' = Some([config |-> config, vocab |-> Get(vocab)])
       ELSE /\ files' = [files EXCEPT !.config = Some(Remaining)]
            /\ sr_op' = SROp("store", "raised", TRUE, FALSE)
            /\ stored' = None
  /\ UNCHANGED <<notShared, config, vocab>>

\* Mutant of Tolerated: a missing vocabulary artifact is skipped as well.
Tolerated_Both(artifact) == TRUE

\* The artifacts load may find missing: os.path.exists guards the config
\* artifact only (line 53).
Tolerated(artifact) == artifact = "config"

\* Mutant of UpdatedConfig: the pickled attributes are read and dropped.
UpdatedConfig_Dropped(file) == config

\* Lines 53-55: self.__dict__.update(pickle.load(f)) when the file exists.
UpdatedConfig(file) == IF IsNone(file) THEN config ELSE Get(file).config

\* Vocab.load(path): the mappings the file holds; the file must exist.
Vocab_load(file) == Get(file)

\* SharedResources.load(path) (lines 53-58): the config artifact is read if
\* it exists; self.vocab becomes a new Vocab, which loads the vocabulary
\* artifact and raises when that is missing.
SharedResources_load ==
  LET missing == {a \in {"config", "vocab"} : IsNone(files[a])}
      raised == \E a \in missing : ~Tolerated(a)
  IN
  /\ config' = UpdatedConfig(files.config)
  /\ vocab' = IF IsNone(files.vocab) THEN Some(EmptyVocab)
              ELSE Some(Vocab_load(files.vocab))
  /\ sr_op' = SROp("load", IF raised THEN "raised" ELSE "returned",
                   FALSE, FALSE)
  /\ UNCHANGED <<notShared, files, stored>>

SharedNext ==
  \/ SharedResources_init
  \/ SharedResources_store
  \/ SharedResources_load

SharedSpec == SharedInit /\ [][SharedNext]_vars

\* The last call was a load and it returned / raised.
LoadReturned == sr_op.op = "load" /\ sr_op.status = "returned"
LoadRaised == sr_op.op = "load" /\ sr_op.status = "raised"

C14_MissingConfigGivesEmpty ==
  (sr_op.op = "load" /\ IsNone(files.config) /\ ~IsNone(files.vocab)) =>
    (sr_op.status = "returned" /\ config = EmptyConfig)

\* C15: a load that finds no vocabulary artifact raises, the config artifact
\* present or not; a load that returns has found the vocabulary artifact
\* and holds its vocabulary.
C15_MissingVocabIsFatal ==
  /\ (sr_op.op = "load" /\ IsNone(files.vocab)) => sr_op.status = "raised"
  /\ LoadReturned => (~IsNone(files.vocab) /\ vocab = files.vocab)

\* C15 witness: a load has raised although the config artifact exists.
C15_Witness ==
  LoadRaised /\ ~IsNone(files.config) /\ IsNone(files.vocab)

\* C16 (as claimed): a store call writes both artifacts or neither.
C16_StoreAllOrNothing ==
  sr_op.op = "store" => (sr_op.wrote_config <=> sr_op.wrote_vocab)

\* ------------------------------------------------------------------ ports
\* TensorPort and TensorPortWithDefault (src/jack/core/tensorport.py) as
\* Python objects: an object is its number in `heap`, its fields are the
\* name and, for a TensorPortWithDefault, the default value.  The reader's
\* model above names a port by its name: its modules share the port objects
\* of the class Ports, one per name.
PortNames == <<"loss", "question">>

PortObjects == 1 .. Len(heap)

\* TensorPort(dtype, shape, name) and
\* TensorPortWithDefault(default_value, dtype, shape, name).
TensorPort(name) == [name |-> name, default_value |-> None]
TensorPortWithDefault(default_value, name) ==
  [name |-> name, default_value |-> Some(default_value)]

\* p == q and hash(p): TensorPort defines neither __eq__ nor __hash__, so
\* both are object's, by identity.
PortEq(p, q) == p = q
PortHash(p) == p

\* str > str on port names: PortNames lists them in that order.
NameRank(name) == CHOOSE i \in 1 .. Len(PortNames) : PortNames[i] = name

\* TensorPort.__gt__ (lines 53-54).
PortGt(p, q) == NameRank(heap[p].name) > NameRank(heap[q].name)

\* `port in mapping` and mapping[port] of a dict keyed by port objects: the
\* key with the port's hash that equals it.
HasKey(mapping, port) ==
  \E k \in DOMAIN mapping : PortHash(k) = PortHash(port) /\ PortEq(k, port)
Item(mapping, port) ==
  mapping[CHOOSE k \in DOMAIN mapping :
            PortHash(k) = PortHash(port) /\ PortEq(k, port)]

\* Mutant of create_placeholder: TensorPortWithDefault does not override
\* TensorPort.create_placeholder.
create_placeholder_Plain(port) == [default |-> None]

\* port.create_placeholder() (lines 37-42 and 69-82): tf.placeholder, or
\* tf.placeholder_with_default(self.default_value, ...).
create_placeholder(port) == [default |-> heap[port].default_value]

\* What a binding yields in session.run: the value fed to it; unfed, its
\* default, and an error if it has none.
Yields(binding, port, feed_dict) ==
  IF port \in DOMAIN feed_dict THEN [status |-> "value", v |-> feed_dict[port]]
  ELSE IF ~IsNone(binding.default)
  THEN [status |-> "value", v |-> Get(binding.default)]
  ELSE [status |-> "error", v |-> 0]

\* A module author creates a port object.
TensorPort_init ==
  /\ Len(heap) < MaxPorts
  /\ \E k \in 1 .. Len(PortNames) :
       \/ heap' = Append(heap, TensorPort(PortNames[k]))
       \/ \E d \in Values :
            heap' = Append(heap, TensorPortWithDefault(d, PortNames[k]))
  /\ UNCHANGED <<notPorts, bindings, port_op>>

\* TFModelModule.setup (lines 96/100 and 104):
\* {d: d.create_placeholder() for d in self.input_ports}.
CreatePlaceholders ==
  /\ IsNone(bindings)
  /\ \E inputs \in SUBSET PortObjects :
       bindings' = Some([d \in inputs |-> create_placeholder(d)])
  /\ UNCHANGED <<notPorts, heap, port_op>>

\* TFModelModule.convert_to_feed_dict(batch) (lines 150-152) for a batch
\* keyed by port objects, and the value every placeholder then yields.
BindBatch ==
  /\ ~IsNone(bindings)
  /\ \E keys \in SUBSET PortObjects :
       \E batch \in [keys -> Values] :
         LET feed_dict ==
               [port \in {d \in DOMAIN Get(bindings) : HasKey(batch, d)}
                  |-> Item(batch, port)]
         IN port_op' =
              [op |-> "bind", batch |-> batch,
               yielded |-> [d \in DOMAIN Get(bindings) |->
                              Yields(Get(bindings)[d], d, feed_dict)]]
  /\ UNCHANGED <<notPorts, heap, bindings>>

PortsInit == PortsAlone /\ PortsAtRest

PortsNext == TensorPort_init \/ CreatePlaceholders \/ BindBatch

PortsSpec == PortsInit /\ [][PortsNext]_vars

SameName(p, q) == heap[p].name = heap[q].name

\* C17 (as claimed): when a batch keyed by port objects is bound to the
\* placeholders, a key of the batch and a port of the module compare equal
\* iff their names match, and a key addresses the placeholder of every port
\* of its name, which then gets the key's value; and one port is greater
\* than another iff its name is.
C17_PortsAreTheirNames ==
  /\ port_op.op = "bind" =>
       \A d \in DOMAIN port_op.yielded :
         \A k \in DOMAIN port_op.batch :
           /\ PortEq(k, d) <=> SameName(k, d)
           /\ SameName(k, d) =>
                port_op.yielded[d] =
                  [status |-> "value", v |-> port_op.batch[k]]
  /\ \A p, q \in PortObjects :
       PortGt(p, q) <=> NameRank(heap[p].name) > NameRank(heap[q].name)

\* C18: whenever a batch has been bound, the placeholder of every port with
\* a declared default has yielded the default if the batch holds no value
\* for the port, and the batch's value if it does.
C18_DefaultUnlessSupplied ==
  port_op.op = "bind" =>
    \A d \in DOMAIN port_op.yielded :
      ~IsNone(heap[d].default_value) =>
        port_op.yielded[d] =
          [status |-> "value",
           v |-> IF d \in DOMAIN port_op.batch THEN port_op.batch[d]
                 ELSE Get(heap[d].default_value)]

\* C18 witness: of two ports of different names with the default 0, one was
\* supplied the value 1 and yielded 1, the other was not supplied and
\* yielded 0.
C18_Witness ==
  /\ port_op.op = "bind"
  /\ Len(heap) = 2 /\ ~SameName(1, 2)
  /\ DOMAIN port_op.yielded = {1, 2}
  /\ heap[1].default_value = Some(0) /\ heap[2].default_value = Some(0)
  /\ DOMAIN port_op.batch = {1} /\ port_op.batch[1] = 1
  /\ port_op.yielded[1].v = 1 /\ port_op.yielded[2].v = 0

\* ------------------------------------------------------------------ EvalHook
\* EvalHook.__call__ and combine_metrics (src/jack/util/hooks.py).  What
\* apply_metrics returns for a batch is a number per possible metric; a
\* quotient a / b of Python is kept as the pair <<a, b>>.
possible_metrics == {"exact", "f1"}

\* The values apply_metrics may return for one batch.
BatchMetrics == [possible_metrics -> 0 .. MaxBatchMetric]

RECURSIVE sum(_)
sum(vs) == IF vs = <<>> THEN 0 ELSE vs[1] + sum(Tail(vs))

\* Two quotients are the same number.
SameQuotient(x, y) == x[1] * y[2] = y[1] * x[2]

\* The hook is constructed over a dataset (lines 277-290:
\* self._total = len(dataset), self._metrics = metrics or possible_metrics)
\* and an evaluation starts: the batch generator yields some batches.
EvalInit ==
  /\ EvalAlone
  /\ hook_total \in 0 .. MaxTotal
  /\ hook_metrics \in (SUBSET possible_metrics) \ {{}}
  /\ batch_metrics \in
       UNION {[1 .. n -> BatchMetrics] : n \in 0 .. MaxEvalBatches}
  /\ batch_i = 0
  /\ metrics = EmptyMetrics
  /\ combined = None

\* Lines 315-320: the next batch's metrics are appended to the lists of the
\* defaultdict, one list per key of self._metrics.
EvalBatch ==
  /\ IsNone(combined)
  /\ batch_i < Len(batch_metrics)
  /\ LET m == batch_metrics[batch_i + 1] IN
     metrics' = [k \in hook_metrics |->
                   Append(IF k \in DOMAIN metrics THEN metrics[k] ELSE <<>>,
                          m[k])]
  /\ batch_i' = batch_i + 1
  /\ UNCHANGED <<notEval, hook_total, hook_metrics, batch_metrics, combined>>

\* Mutant of combine_metrics: the mean over the batches.
combine_metrics_PerBatch(accumulated_metrics) ==
  [k \in DOMAIN accumulated_metrics |->
     <<sum(accumulated_metrics[k]), Len(accumulated_metrics[k])>>]

\* EvalHook.combine_metrics (lines 302-306):
\* {k: sum(vs) / self._total for k, vs in accumulated_metrics.items()}.
combine_metrics(accumulated_metrics) ==
  [k \in DOMAIN accumulated_metrics |->
     <<sum(accumulated_metrics[k]), hook_total>>]

\* Line 322: metrics = self.combine_metrics(metrics), once the batches are
\* exhausted.  A division by zero raises ZeroDivisionError.
CombineMetrics ==
  /\ IsNone(combined)
  /\ batch_i = Len(batch_metrics)
  /\ LET result == combine_metrics(metrics) IN
     combined' = IF \E k \in DOMAIN result : result[k][2] = 0
                 THEN Some([status |-> "raised", metrics |-> EmptyMetrics])
                 ELSE Some([status |-> "returned", metrics |-> result])
  /\ UNCHANGED <<notEval, hook_total, hook_metrics, batch_metrics, batch_i,
                 metrics>>

EvalNext == EvalBatch \/ CombineMetrics

EvalSpec == EvalInit /\ [][EvalNext]_vars

\* combine_metrics has returned.
Combined == ~IsNone(combined) /\ Get(combined).status = "returned"

\* The values apply_metrics returned for metric k, batch by batch.
Contributions(k) == [b \in 1 .. Len(batch_metrics) |-> batch_metrics[b][k]]

\* C19: when combine_metrics has returned, its result has the keys of the
\* accumulated metrics, and for each of them the sum of what apply_metrics
\* returned for the batches divided by len(dataset), whatever the number of
\* batches.
C19_SumOverTotal ==
  Combined =>
    LET result == Get(combined).metrics IN
    /\ DOMAIN result = DOMAIN metrics
    /\ \A k \in DOMAIN result :
         /\ SameQuotient(result[k], <<sum(Contributions(k)), hook_total>>)
         /\ result[k][2] # 0

\* C19 witness: two batches over a dataset of three examples, each with
\* exact = 1, have been combined to 2 / 3.
C19_Witness ==
  /\ Combined
  /\ hook_total = 3 /\ Len(batch_metrics) = 2
  /\ "exact" \in DOMAIN Get(combined).metrics
  /\ SameQuotient(Get(combined).metrics["exact"], <<2, 3>>)

\* ------------------------------------------------------------------ XQA
\* XQAEvalHook.apply_metrics (src/jack/util/hooks.py, lines 370-406).  A span
\* is <<start, end>>; rows and question numbers count from 0 as in the
\* source, so row i of an array is element i + 1 of the sequence.  A float
\* is kept as a quotient <<a, b>> with b > 0; the 1e-10 the source adds to
\* its denominators is left out, which changes no comparison made here.
Spans == {<<3, 5>>, <<4, 5>>, <<4, 4>>, <<4, 3>>}

SpanArrays(n) == UNION {[1 .. m -> Spans] : m \in 0 .. n}

Zero == <<0, 1>>
One == <<1, 1>>
Less(x, y) == x[1] * y[2] < y[1] * x[2]

\* Mutant of Max2: the f1 of the last gold span replaces the one kept.
Max2_Last(x, y) == y

\* Python's max(x, y) of two floats: y if it is greater, else x.
Max2(x, y) == IF Less(x, y) THEN y ELSE x

Plus(x, y) == <<x[1] * y[2] + y[1] * x[2], x[2] * y[2]>>
Min(a, b) == IF a < b THEN a ELSE b
Max(a, b) == IF a < b THEN b ELSE a

\* Mutant of SameSpan: only the starts are compared.
SameSpan_StartOnly(p, c) == p[1] = c[1]

\* Line 389: p_start == c_start and p_end == c_end.
SameSpan(p, c) == p[1] = c[1] /\ p[2] = c[2]

\* Lines 393-400 for a predicted span p and a gold span c that differ:
\* total, tp, fp and the f1 of the pair, 2 * precision * recall /
\* (precision + recall) with precision = tp / (tp + fp) and recall =
\* tp / total, which is 2 * tp / (tp + fp + total), and 0 for tp = 0.
Total(c) == c[2] - c[1] + 1
TruePositives(p, c) ==
  Total(c) - Min(Total(c), Max(0, p[1] - c[1]) + Max(0, c[2] - p[2]))
FalsePositives(p, c) == Max(0, c[1] - p[1]) + Max(0, p[2] - c[2])
PairF1(p, c) ==
  IF TruePositives(p, c) = 0 THEN Zero
  ELSE <<2 * TruePositives(p, c),
         TruePositives(p, c) + FalsePositives(p, c) + Total(c)>>

RaisedXQA == [status |-> "raised", f1 |-> Zero, exact |-> 0, k |-> 0]

\* Lines 387-401: the while loop for predicted span i, from gold row k with
\* the f1 and exact kept so far.  recall = tp / total raises
\* ZeroDivisionError for total = 0.
RECURSIVE WhileSameQuestion(_, _, _, _)
WhileSameQuestion(i, k, f1, exact) ==
  LET t == xqa_tensors IN
  IF k < Len(t.correct_spans) /\ t.correct2prediction[k + 1] = i
  THEN LET p == t.predicted_spans[i + 1]
           c == t.correct_spans[k + 1]
       IN IF SameSpan(p, c) THEN WhileSameQuestion(i, k + 1, One, 1)
          ELSE IF Less(f1, One)
          THEN IF Total(c) = 0 THEN RaisedXQA
               ELSE WhileSameQuestion(i, k + 1, Max2(f1, PairF1(p, c)), exact)
          ELSE WhileSameQuestion(i, k + 1, f1, exact)
  ELSE [status |-> "returned", f1 |-> f1, exact |-> exact, k |-> k]

\* Lines 384-406: the for loop from predicted span i on, and the result.
RECURSIVE ForPredicted(_, _, _, _)
ForPredicted(i, k, acc_f1, acc_exact) ==
  IF i < Len(xqa_tensors.predicted_spans)
  THEN LET r == WhileSameQuestion(i, k, Zero, 0) IN
       IF r.status = "raised" THEN RaisedXQA
       ELSE ForPredicted(i + 1, r.k, Plus(acc_f1, r.f1), acc_exact + r.exact)
  ELSE [status |-> "returned", f1 |-> acc_f1, exact |-> acc_exact, k |-> k]

\* The hook gets the arrays of a batch: the predicted spans, one per
\* question, the gold spans and, for every gold span, the number of its
\* question.
XQAInit ==
  /\ XQAAlone
  /\ \E predicted \in SpanArrays(MaxPredicted), gold \in SpanArrays(MaxGold) :
       \E a2q \in [1 .. Len(gold) -> 0 .. (Len(predicted) - 1)] :
         xqa_tensors = [predicted_spans |-> predicted, correct_spans |-> gold,
                        correct2prediction |-> a2q]
  /\ xqa_metrics = None

\* XQAEvalHook.apply_metrics(tensors).
apply_metrics ==
  /\ IsNone(xqa_metrics)
  /\ LET r == ForPredicted(0, 0, Zero, 0) IN
     xqa_metrics' = Some([status |-> r.status, f1 |-> r.f1, exact |-> r.exact])
  /\ UNCHANGED <<notXQA, xqa_tensors>>

XQANext == apply_metrics

XQASpec == XQAInit /\ [][XQANext]_vars

\* apply_metrics has returned.
XQAReturned == ~IsNone(xqa_metrics) /\ Get(xqa_metrics).status = "returned"

\* The predicted spans that equal, bound for bound, a gold span of theirs.
ExactPredictions ==
  LET t == xqa_tensors IN
  {i \in 0 .. (Len(t.predicted_spans) - 1) :
     \E k \in 0 .. (Len(t.correct_spans) - 1) :
       /\ t.correct2prediction[k + 1] = i
       /\ t.correct_spans[k + 1][1] = t.predicted_spans[i + 1][1]
       /\ t.correct_spans[k + 1][2] = t.predicted_spans[i + 1][2]}

\* The gold spans of each question are next to each other.
Contiguous(a2q) ==
  \A j, k, l \in 1 .. Len(a2q) :
    (j < k /\ k < l /\ a2q[j] = a2q[l]) => a2q[k] = a2q[j]

\* The gold spans come in the order of their questions.
InQuestionOrder(a2q) ==
  \A j, k \in 1 .. Len(a2q) : j < k => a2q[j] <= a2q[k]

\* C20 (as claimed): whenever apply_metrics returns for gold spans that are
\* contiguous per question, exact is the number of predicted spans that
\* equal one of their gold spans bound for bound.
C20_Original ==
  (XQAReturned /\ Contiguous(xqa_tensors.correct2prediction)) =>
    Get(xqa_metrics).exact = Cardinality(ExactPredictions)

\* C20 (amended): whenever apply_metrics returns for gold spans that come
\* in the order of their questions (and so are contiguous per question),
\* exact is the number of predicted spans that equal one of their gold
\* spans bound for bound.
C20_ExactCountsMatches ==
  (XQAReturned /\ InQuestionOrder(xqa_tensors.correct2prediction)) =>
    Get(xqa_metrics).exact = Cardinality(ExactPredictions)

\* C20 witness: the second question has two gold spans, the second of which
\* is the predicted span; the first question has none; exact is 1.
C20_Witness ==
  /\ XQAReturned
  /\ Len(xqa_tensors.predicted_spans) = 2
  /\ xqa_tensors.correct2prediction = <<1, 1>>
  /\ xqa_tensors.correct_spans[1] # xqa_tensors.predicted_spans[2]
  /\ xqa_tensors.correct_spans[2] = xqa_tensors.predicted_spans[2]
  /\ Get(xqa_metrics).exact = 1

\* The row of the gold array at which the for loop starts predicted span i,
\* and what the while loop keeps for it.
RECURSIVE RowBefore(_)
RowBefore(i) ==
  IF i = 0 THEN 0 ELSE WhileSameQuestion(i - 1, RowBefore(i - 1), Zero, 0).k

KeptFor(i) == WhileSameQuestion(i, RowBefore(i), Zero, 0)

\* The gold spans of predicted span i: the rows mapped to question i.
GoldOf(i) ==
  {k \in 1 .. Len(xqa_tensors.correct_spans) :
     xqa_tensors.correct2prediction[k] = i}

\* 2PR / (P + R) for a predicted span <<ps, pe>> and a gold span <<cs, ce>>
\* with the total, tp, fp, R and P of the claim; the epsilon makes a
\* quotient 0 / 0 equal to 0.
ClaimedPairF1(ps, pe, cs, ce) ==
  LET total == ce - cs + 1
      tp == total - Min(total, Max(0, ps - cs) + Max(0, ce - pe))
      fp == Max(0, cs - ps) + Max(0, pe - ce)
      R == <<tp, total>>
      P == IF tp + fp = 0 THEN Zero ELSE <<tp, tp + fp>>
      twoPR == <<2 * P[1] * R[1], P[2] * R[2]>>
      PplusR == Plus(P, R)
  IN IF PplusR[1] = 0 THEN Zero
     ELSE <<twoPR[1] * PplusR[2], twoPR[2] * PplusR[1]>>

\* The f1 the claim gives predicted span i.
ClaimedF1(i) ==
  LET p == xqa_tensors.predicted_spans[i + 1]
      gold == {xqa_tensors.correct_spans[k] : k \in GoldOf(i)}
      pairs == {ClaimedPairF1(p[1], p[2], c[1], c[2]) : c \in gold}
  IN IF p \in gold THEN One
     ELSE IF pairs = {} THEN Zero
     ELSE CHOOSE x \in pairs : \A y \in pairs : ~Less(x, y)

RECURSIVE SumClaimedF1(_)
SumClaimedF1(n) ==
  IF n = 0 THEN Zero ELSE Plus(SumClaimedF1(n - 1), ClaimedF1(n - 1))

F1AsClaimed ==
  /\ \A i \in 0 .. (Len(xqa_tensors.predicted_spans) - 1) :
       SameQuotient(KeptFor(i).f1, ClaimedF1(i))
  /\ SameQuotient(Get(xqa_metrics).f1,
                  SumClaimedF1(Len(xqa_tensors.predicted_spans)))

\* C21 (as claimed): whenever apply_metrics returns, the f1 kept for every
\* predicted span is 1 if one of the gold spans of its question equals it,
\* and otherwise the greatest 2PR / (P + R) over the gold spans of its
\* question; the f1 returned is the sum of these.
C21_Original == XQAReturned => F1AsClaimed

\* C21 (amended): the same, whenever the gold spans come in the order of
\* their questions.
C21_F1IsBestOverGold ==
  (XQAReturned /\ InQuestionOrder(xqa_tensors.correct2prediction)) =>
    F1AsClaimed

\* C21 witness: predicted <<3, 5>> against the gold span <<4, 5>> only
\* has given f1 = 4 / 5 and exact = 0.
C21_Witness ==
  /\ XQAReturned
  /\ xqa_tensors.predicted_spans = << <<3, 5>> >>
  /\ xqa_tensors.correct_spans = << <<4, 5>> >>
  /\ SameQuotient(Get(xqa_metrics).f1, <<4, 5>>)
  /\ Get(xqa_metrics).exact = 0

\* C21 witness of the maximum: the first gold span of a question gives
\* 4 / 5, its second 1 / 2, and 4 / 5 is kept.
C21_WitnessMax ==
  /\ XQAReturned
  /\ xqa_tensors.predicted_spans = << <<3, 5>> >>
  /\ xqa_tensors.correct_spans = << <<4, 5>>, <<4, 4>> >>
  /\ SameQuotient(Get(xqa_metrics).f1, <<4, 5>>)

\* The bounds on what apply_metrics has kept and returned.
F1Bounds ==
  LET n == Len(xqa_tensors.predicted_spans) IN
  /\ \A i \in 0 .. (n - 1) :
       LET kept == KeptFor(i) IN
       /\ ~Less(kept.f1, Zero) /\ ~Less(One, kept.f1)
       /\ ~Less(kept.f1, <<kept.exact, 1>>)
       /\ GoldOf(i) = {} => (kept.f1 = Zero /\ kept.exact = 0)
  /\ 0 <= Get(xqa_metrics).exact
  /\ ~Less(Get(xqa_metrics).f1, <<Get(xqa_metrics).exact, 1>>)
  /\ ~Less(<<n, 1>>, Get(xqa_metrics).f1)

\* C29 (as claimed): for every input, apply_metrics returns, every
\* prediction's f1 lies in [0, 1] and is at least its exact value, the
\* totals satisfy 0 <= exact <= f1 <= number of predicted spans, and a
\* prediction without gold spans contributes 0 to both.
C29_F1WithinBounds ==
  ~IsNone(xqa_metrics) => (XQAReturned /\ F1Bounds)

\* ------------------------------------------------------------------ LossHook
\* LossHook (src/jack/util/hooks.py, lines 109-158) under the callbacks of
\* the training loop, which passes set_name = 'train' or leaves the default.
\* The loss of a batch is a small integer; a quotient is a pair.
IterIntervals == {None} \cup {Some(n) : n \in 1 .. MaxInterval}

\* LossHook.__init__ (lines 112-118).
LossInit ==
  /\ LossAlone
  /\ \E iter_interval \in IterIntervals :
       loss_hook = Some([iter_interval |-> iter_interval, acc_loss |-> 0,
                         iter |-> 0, epoch_loss |-> 0, iter_epoch |-> 0])
  /\ loss_ret = [call |-> "none"]

LossRet(call, arg, status, ret) ==
  [call |-> call, arg |-> arg, status |-> status, ret |-> ret]

\* LossHook.at_iteration_end(epoch, loss) (lines 120-145).
LossHook_at_iteration_end ==
  /\ ~IsNone(loss_hook)
  /\ Get(loss_hook).iter < MaxLossCalls
  /\ \E loss \in 0 .. MaxLoss :
       LET self == Get(loss_hook) IN
       IF IsNone(self.iter_interval)
       THEN /\ loss_ret' = LossRet("at_iteration_end", loss, "returned",
                                   <<loss, 1>>)
            /\ UNCHANGED loss_hook
       ELSE LET iter == self.iter + 1
                acc_loss == self.acc_loss + loss
                logged == iter % Get(self.iter_interval) = 0
                left == IF logged THEN 0 ELSE acc_loss
            IN /\ loss_hook' = Some([self EXCEPT
                                       !.iter_epoch = self.iter_epoch + 1,
                                       !.epoch_loss = self.epoch_loss + 1,
                                       !.iter = iter,
                                       !.acc_loss = left])
               /\ loss_ret' = LossRet("at_iteration_end", loss, "returned",
                                      <<left, iter>>)
  /\ UNCHANGED notLoss

\* LossHook.at_epoch_end(epoch) (lines 147-158).  With iter_interval None,
\* line 149 subscripts None: TypeError.
LossHook_at_epoch_end ==
  /\ ~IsNone(loss_hook)
  /\ \E e \in 1 .. MaxEpochs :
       LET self == Get(loss_hook) IN
       loss_ret' =
         IF IsNone(self.iter_interval)
         THEN LossRet("at_epoch_end", e, "raised", <<0, 1>>)
         ELSE LossRet("at_epoch_end", e, "returned",
                      IF self.iter_epoch = 0 THEN <<0, 1>>
                      ELSE <<self.epoch_loss, self.iter_epoch>>)
  /\ UNCHANGED <<notLoss, loss_hook>>

LossNext == LossHook_at_iteration_end \/ LossHook_at_epoch_end

LossSpec == LossInit /\ [][LossNext]_vars

\* C30 (as claimed): no callback of a LossHook raises, whether it was
\* constructed with iter_interval = None or with a positive iter_interval.
C30_LossHookNeverRaises ==
  loss_ret.call # "none" => loss_ret.status = "returned"

\* ------------------------------------------------------------------ KBP
\* The ranking metric of KBPEvalHook.at_test_time (src/jack/util/hooks.py,
\* lines 504-533), over the dictionaries that lines 475-494 build: for each
\* question q, q_cand_scores[q] (the score of every candidate; candidate c
\* is the c-th) and q_answers[q] (the correct answers, at least one; the
\* answer Len(scores) + 1 is not among the candidates).  Scores are small
\* integers, a quotient is a pair in lowest terms.
Scores == {0, 1}

ScoreLists == UNION {[1 .. n -> Scores] : n \in 1 .. MaxCandidates}

\* Three candidates with the scores 0.9, 0.5 and 0.1.
TieFreeScores == <<9, 5, 1>>

\* One more candidate than the cutoff, in descending order of score.
LongScores == [c \in 1 .. (RankCutoff + 1) |-> RankCutoff + 1 - c]

KBPQuestions ==
  UNION {{[scores |-> s, answers |-> A] :
            A \in (SUBSET (1 .. (Len(s) + 1))) \ {{}}} : s \in ScoreLists}
  \cup {[scores |-> TieFreeScores, answers |-> {c}] :
          c \in 1 .. (Len(TieFreeScores) + 1)}
  \cup {[scores |-> LongScores, answers |-> A] :
          A \in {{RankCutoff + 1}, {RankCutoff, RankCutoff + 1}}}

RECURSIVE GCD(_, _)
GCD(a, b) == IF b = 0 THEN a ELSE GCD(b, a % b)

\* A quotient in lowest terms.
Lowest(x) == LET g == GCD(x[1], x[2]) IN <<x[1] \div g, x[2] \div g>>

\* Mutant of rankdata: tied candidates share their greatest rank.
rankdata_Max(scores, c) ==
  Cardinality({d \in DOMAIN scores : scores[d] >= scores[c]})

\* rankdata(- scores, method="min")[c]: one more than the number of
\* candidates with a greater score.
rankdata(scores, c) ==
  1 + Cardinality({d \in DOMAIN scores : scores[d] > scores[c]})

\* Lines 511-514: the candidates whose rank is appended to ans_ranks.
Found(q) ==
  {c \in q.answers \cap DOMAIN q.scores :
     rankdata(q.scores, c) <= RankCutoff}

\* Line 517: sorted(ans_ranks), for the candidates `found`.
RECURSIVE SortedAnsRanks(_, _)
SortedAnsRanks(q, found) ==
  IF found = {} THEN <<>>
  ELSE LET first == CHOOSE c \in found :
                      \A d \in found :
                        rankdata(q.scores, c) <= rankdata(q.scores, d)
       IN <<rankdata(q.scores, first)>>
            \o SortedAnsRanks(q, found \ {first})

\* Lines 515-520: av_p after the loop over the sorted ranks from the
\* answers-th on.
RECURSIVE SumPrecisions(_, _)
SumPrecisions(ranks, answers) ==
  IF answers > Len(ranks) THEN Zero
  ELSE Lowest(Plus(<<answers, ranks[answers]>>,
                   SumPrecisions(ranks, answers + 1)))

\* at_test_time starts: the locals of lines 504-507.
KBPInit ==
  /\ KBPAlone
  /\ KBPAtRest

\* Line 508: the loop takes the next question of q_answers.
KBPNextQuestion ==
  /\ IsNone(kbp_result) /\ IsNone(kbp_q)
  /\ kbp_acc.q_answers_len < MaxKBPQuestions
  /\ \E q \in KBPQuestions : kbp_q' = Some(q)
  /\ UNCHANGED <<notKBP, kbp_acc, kbp_result>>

\* Lines 509-530: the body of the loop for the question q, from the locals
\* acc.
AveragePrecision(q, acc) ==
  LET ans_ranks == SortedAnsRanks(q, Found(q))
      summed == SumPrecisions(ans_ranks, 1)
      found == Len(ans_ranks) > 0
      av_p == IF found
              THEN Lowest(<<summed[1], summed[2] * Len(ans_ranks)>>)
              ELSE summed
  IN [mean_ap |-> Lowest(Plus(acc.mean_ap, av_p)),
      wmap |-> IF found THEN Lowest(Plus(acc.wmap, summed)) ELSE acc.wmap,
      qd |-> IF found THEN acc.qd + 1 ELSE acc.qd,
      md |-> IF found THEN acc.md + Len(ans_ranks) ELSE acc.md,
      av_p |-> av_p,
      q_answers_len |-> acc.q_answers_len + 1]

KBPAveragePrecision ==
  /\ ~IsNone(kbp_q)
  /\ kbp_acc' = AveragePrecision(Get(kbp_q), kbp_acc)
  /\ kbp_q' = None
  /\ UNCHANGED <<notKBP, kbp_result>>

\* Lines 531-533: the two metrics.
KBPMetrics ==
  /\ IsNone(kbp_result) /\ IsNone(kbp_q)
  /\ kbp_result' =
       Some([mean_ap |-> IF kbp_acc.q_answers_len # 0
                         THEN Lowest(<<kbp_acc.mean_ap[1],
                                       kbp_acc.mean_ap[2]
                                         * kbp_acc.q_answers_len>>)
                         ELSE Zero,
             wmap |-> IF kbp_acc.md # 0
                      THEN Lowest(<<kbp_acc.wmap[1],
                                    kbp_acc.wmap[2] * kbp_acc.md>>)
                      ELSE Zero])
  /\ UNCHANGED <<notKBP, kbp_q, kbp_acc>>

KBPNext == KBPNextQuestion \/ KBPAveragePrecision \/ KBPMetrics

KBPSpec == KBPInit /\ [][KBPNext]_vars

\* The minimum rank of candidate c by descending score: the first place it
\* can take when the candidates are put in descending order of score.
MinRank(scores, c) ==
  CHOOSE r \in 1 .. Len(scores) :
    /\ Cardinality({d \in DOMAIN scores : scores[d] > scores[c]}) < r
    /\ \A r2 \in 1 .. (r - 1) :
         Cardinality({d \in DOMAIN scores : scores[d] > scores[c]}) >= r2

\* The gold answers of q that are candidates of rank <= 100.
GoldInTop(q) ==
  {c \in q.answers \cap DOMAIN q.scores :
     MinRank(q.scores, c) <= RankCutoff}

\* The place i of gold candidate c among the sorted ranks r_1 <= ... <= r_n
\* (gold candidates of one rank in the order of their numbers).
PlaceOf(q, c) ==
  Cardinality({d \in GoldInTop(q) :
                 \/ MinRank(q.scores, d) < MinRank(q.scores, c)
                 \/ MinRank(q.scores, d) = MinRank(q.scores, c) /\ d <= c})

\* sum_i (i / r_i) over the gold candidates numbered up to c.
RECURSIVE SumOfPlaceOverRank(_, _)
SumOfPlaceOverRank(q, c) ==
  IF c = 0 THEN Zero
  ELSE IF c \in GoldInTop(q)
  THEN Lowest(Plus(SumOfPlaceOverRank(q, c - 1),
                   <<PlaceOf(q, c), MinRank(q.scores, c)>>))
  ELSE SumOfPlaceOverRank(q, c - 1)

\* (1 / n) * sum_i (i / r_i), and 0 for n = 0.
ClaimedAveragePrecision(q) ==
  LET n == Cardinality(GoldInTop(q))
      total == SumOfPlaceOverRank(q, Len(q.scores))
  IN IF n = 0 THEN Zero ELSE <<total[1], total[2] * n>>

\* C22: every pass of the loop body gives its question the average
\* precision (1 / n) * sum_i (i / r_i) over the sorted minimum ranks of its
\* gold answers among the first 100 (0 if there are none) and adds it to
\* the running sum; and the mean average precision computed is that sum
\* divided by the number of questions.
C22_MeanAveragePrecision ==
  /\ [][(~IsNone(kbp_q) /\ IsNone(kbp_q')) =>
          LET ap == ClaimedAveragePrecision(Get(kbp_q)) IN
          /\ SameQuotient(kbp_acc'.av_p, ap)
          /\ SameQuotient(kbp_acc'.mean_ap, Plus(kbp_acc.mean_ap, ap))
          /\ kbp_acc'.q_answers_len = kbp_acc.q_answers_len + 1]_vars
  /\ []((~IsNone(kbp_result) /\ kbp_acc.q_answers_len > 0) =>
          SameQuotient(Get(kbp_result).mean_ap,
                       <<kbp_acc.mean_ap[1],
                         kbp_acc.mean_ap[2] * kbp_acc.q_answers_len>>))

\* C22 witness: one question whose only gold answer in the ranking has
\* rank 2; the mean average precision is 1 / 2.
C22_Witness ==
  /\ ~IsNone(kbp_result)
  /\ kbp_acc.q_answers_len = 1 /\ kbp_acc.md = 1
  /\ kbp_acc.wmap = <<1, 2>>
  /\ Get(kbp_result).mean_ap = <<1, 2>>

InUnitInterval(x) == ~Less(x, Zero) /\ ~Less(One, x)

\* C28 (as claimed): the average precision of every question lies in
\* [0, 1], and so do the mean average precision and the weighted one.
C28_AveragePrecisionInUnitInterval ==
  /\ InUnitInterval(kbp_acc.av_p)
  /\ ~IsNone(kbp_result) =>
       /\ InUnitInterval(Get(kbp_result).mean_ap)
       /\ InUnitInterval(Get(kbp_result).wmap)

\* ------------------------------------------------------------------ hooks
\* An EvalHook (src/jack/util/hooks.py, lines 272-349) or a KBPEvalHook
\* (lines 439-556) registered with a train call (src/jack/core/tensorflow.py,
\* lines 216-225) over a training set of nbatches batches.  The values of
\* the metrics are left open: evaluation number t writes the lines
\* <<t, name>>, and the side-effect callback called in evaluation t returns
\* the state t.
HookKinds == {"XQAEvalHook", "KBPEvalHook"}

\* possible_metrics of the hook class (lines 362-364 and 448-450).
PossibleMetrics(kind) ==
  IF kind = "KBPEvalHook" THEN {"log_p"} ELSE possible_metrics

KBPMetricNames ==
  <<"Mean Average Precision", "Weighted Mean Average Precision">>

\* len(dataset): an empty and a non-empty held-out dataset.
DatasetSizes == {0, MaxTotal}

\* Mutant of Reiterated: the sequence is a one-shot generator.
Reiterated_OneShot(n, fresh) == IF fresh THEN n ELSE 0

\* What one pass over the sequence batch_generator returned for n items
\* yields, be it the first pass (fresh) or a later one: the sequence is
\* restartable, so every pass yields all n.
Reiterated(n, fresh) == n

\* Mutant of Due: every boundary is due.
Due_Always(interval, n) == TRUE

\* Lines 340 and 348: the interval is set and n is a multiple of it.
Due(interval, n) == ~IsNone(interval) /\ n % Get(interval) = 0

\* Mutant of AppendLine: the file is opened with 'w'.
AppendLine_Truncate(file, line) == <<line>>

\* Lines 330-332, 538-540 and 547-549: open(path, 'a') and one write.
AppendLine(file, line) == Append(file, line)

RECURSIVE WriteLines(_, _)
WriteLines(file, lines) ==
  IF lines = <<>> THEN file
  ELSE WriteLines(AppendLine(file, Head(lines)), Tail(lines))

\* Mutant of SideEffectState: the callback's return value is dropped.
SideEffectState_Dropped(old, returned) == old

\* Line 337: the callback's return value becomes self._side_effect_state.
SideEffectState(old, returned) == returned

\* sorted(metrics.keys()) (line 324).
SortedKeys(keys) ==
  SelectSeq(<<"exact", "f1", "log_p">>, LAMBDA k : k \in keys)

Evaluations(lg) == {k \in 1 .. Len(lg) : lg[k][1] = "evaluated"}

EvaluatedEvent(t, via, e, self, fresh, covered, keys) ==
  <<"evaluated", t,
    [via |-> via, epoch |-> e, iter |-> self.iter, generated |-> fresh,
     covered |-> covered, keys |-> keys]>>

SideEffectEvent(t, prior, ret) ==
  <<"side_effect", t, [prior |-> prior, ret |-> ret]>>

\* EvalHook.__call__(epoch) (lines 308-337) for the hook `self`, called by
\* `via`: the hook, the file and the log after it.
EvalHook_call(self, e, via) ==
  LET t == Cardinality(Evaluations(hook_log)) + 1
      fresh == IsNone(self.batches)
      batches == IF fresh THEN Some(self.total) ELSE self.batches
      covered == Reiterated(Get(batches), fresh)
      keys == IF covered = 0 THEN {} ELSE self.metrics
      printmetrics == SortedKeys(keys)
      lines == [k \in 1 .. Len(printmetrics) |-> <<t, printmetrics[k]>>]
      evaluated ==
        Append(hook_log, EvaluatedEvent(t, via, e, self, fresh, covered, keys))
  IN [hook |-> [self EXCEPT
                  !.batches = batches,
                  !.side_effect_state =
                     IF self.side_effect THEN SideEffectState(@, Some(t))
                     ELSE @],
      file |-> IF IsNone(self.write_metrics_to) THEN hook_file
               ELSE WriteLines(hook_file, lines),
      log |-> IF self.side_effect
              THEN Append(evaluated,
                          SideEffectEvent(t, self.side_effect_state, Some(t)))
              ELSE evaluated]

\* KBPEvalHook.at_test_time(epoch) (lines 460-551); the two metrics are
\* computed as in KBPQuestion and KBPMetrics.
KBPEvalHook_at_test_time(self, e) ==
  LET t == Cardinality(Evaluations(hook_log)) + 1
      fresh == IsNone(self.batches)
      batches == IF fresh THEN Some(self.total) ELSE self.batches
      covered == Reiterated(Get(batches), fresh)
      lines == [k \in 1 .. Len(KBPMetricNames) |-> <<t, KBPMetricNames[k]>>]
  IN [hook |-> [self EXCEPT !.batches = batches],
      file |-> IF IsNone(self.write_metrics_to) THEN hook_file
               ELSE WriteLines(hook_file, lines),
      log |-> Append(hook_log,
                     EvaluatedEvent(t, "KBPEvalHook.at_test_time", e, self,
                                    fresh, covered,
                                    {KBPMetricNames[k] :
                                       k \in 1 .. Len(KBPMetricNames)}))]

Unchanged(self) == [hook |-> self, file |-> hook_file, log |-> hook_log]

\* The hook is constructed (lines 273-290, 440-446) and train has obtained
\* its batches (line 193) and enters its first epoch (line 216).
HookInit ==
  /\ HookAlone
  /\ \E kind \in HookKinds, total \in DatasetSizes,
        epoch_interval \in {None} \cup {Some(n) : n \in 1 .. MaxEpochs},
        iter_interval \in IterIntervals,
        write_metrics_to \in {None, Some("metrics.txt")},
        side_effect \in BOOLEAN :
       hook = Some([kind |-> kind, total |-> total, batches |-> None,
                    epoch_interval |-> epoch_interval,
                    iter_interval |-> iter_interval, iter |-> 0,
                    write_metrics_to |-> write_metrics_to,
                    metrics |-> PossibleMetrics(kind),
                    side_effect |-> side_effect, side_effect_state |-> None,
                    epoch |-> 0])
  /\ \E e \in 1 .. MaxEpochs, b \in 0 .. MaxBatches :
       hook_run = Some([max_epochs |-> e, nbatches |-> b, i |-> 1, j |-> 0,
                        tested |-> 0])
  /\ hook_file = <<>>
  /\ hook_log = <<>>

Running == ~IsNone(hook_run) /\ Get(hook_run).i <= Get(hook_run).max_epochs

\* train, lines 217-221, for the next batch of epoch i, and the hook's
\* at_iteration_end(i, loss) (lines 346-349).
HookTrainIteration ==
  /\ Running
  /\ LET run == Get(hook_run)
         self == [Get(hook) EXCEPT !.iter = @ + 1]
         after == IF Due(self.iter_interval, self.iter)
                  THEN EvalHook_call(self, run.i, "at_iteration_end")
                  ELSE Unchanged(self)
     IN /\ run.j < Reiterated(run.nbatches, run.i = 1)
        /\ hook_run' = Some([run EXCEPT !.j = @ + 1])
        /\ hook' = Some(after.hook)
        /\ hook_file' = after.file
        /\ hook_log' = after.log
  /\ UNCHANGED notHook

\* train, lines 217 and 224-225, when the batches of epoch i are exhausted,
\* and the hook's at_epoch_end(i) (lines 339-341; 553-556 for a
\* KBPEvalHook, which counts the epochs itself).
HookTrainEpochEnd ==
  /\ Running
  /\ LET run == Get(hook_run)
         self == IF Get(hook).kind = "KBPEvalHook"
                 THEN [Get(hook) EXCEPT !.epoch = @ + 1]
                 ELSE Get(hook)
         after == IF Due(self.epoch_interval, run.i)
                  THEN EvalHook_call(self, run.i, "at_epoch_end")
                  ELSE Unchanged(self)
     IN /\ run.j >= Reiterated(run.nbatches, run.i = 1)
        /\ hook_run' = Some([run EXCEPT !.i = @ + 1, !.j = 0])
        /\ hook' = Some(after.hook)
        /\ hook_file' = after.file
        /\ hook_log' = after.log
  /\ UNCHANGED notHook

\* at_test_time(epoch), called by the program that owns the hook
\* (lines 343-344, and 460-551 for a KBPEvalHook).
HookTestTime ==
  /\ ~IsNone(hook_run)
  /\ LET run == Get(hook_run)
         self == Get(hook)
         e == Min(run.i, run.max_epochs)
         after == IF self.kind = "KBPEvalHook"
                  THEN KBPEvalHook_at_test_time(self, e)
                  ELSE EvalHook_call(self, e, "at_test_time")
     IN /\ run.tested < MaxTestCalls
        /\ hook_run' = Some([run EXCEPT !.tested = @ + 1])
        /\ hook' = Some(after.hook)
        /\ hook_file' = after.file
        /\ hook_log' = after.log
  /\ UNCHANGED notHook

HookNext == HookTrainIteration \/ HookTrainEpochEnd \/ HookTestTime

HookSpec == HookInit /\ [][HookNext]_vars

\* The evaluations so far that were made by `via`.
EvaluationsVia(via) ==
  {k \in Evaluations(hook_log) : hook_log[k][3].via = via}

\* C23: with an output file configured, the file holds exactly one line
\* for every metric every evaluation so far has reported and no other line
\* (for a KBPEvalHook's at_test_time its two ranking metrics), and no step
\* removes or changes a line written before; with no file configured
\* nothing is written.
C23_OneLinePerMetricAppended ==
  /\ [](~IsNone(hook) =>
          IF IsNone(Get(hook).write_metrics_to) THEN hook_file = <<>>
          ELSE /\ \A k \in Evaluations(hook_log) :
                    \A name \in hook_log[k][3].keys :
                      Cardinality({l \in 1 .. Len(hook_file) :
                                     hook_file[l] = <<hook_log[k][2], name>>})
                        = 1
               /\ \A l \in 1 .. Len(hook_file) :
                    \E k \in Evaluations(hook_log) :
                      /\ hook_file[l][1] = hook_log[k][2]
                      /\ hook_file[l][2] \in hook_log[k][3].keys
               /\ \A k \in EvaluationsVia("KBPEvalHook.at_test_time") :
                    Cardinality(hook_log[k][3].keys) = 2)
  /\ [][IsPrefix(hook_file, hook_file')]_vars

\* C23 witness: a KBPEvalHook with an output file has written the line of
\* log_p in an evaluation at an epoch end and, after it, the two lines of
\* at_test_time.
C23_Witness ==
  /\ ~IsNone(hook) /\ ~IsNone(Get(hook).write_metrics_to)
  /\ hook_file = << <<1, "log_p">>, <<2, "Mean Average Precision">>,
                    <<2, "Weighted Mean Average Precision">> >>

\* C24: the train call has issued nbatches iteration-end callbacks in every
\* epoch it has completed and at most nbatches in the current one; the hook
\* has obtained its evaluation batches in its first evaluation and in no
\* other, and every evaluation has covered all instances of the dataset.
C24_BatchesRestartedAndReused ==
  (~IsNone(hook) /\ ~IsNone(hook_run)) =>
    LET self == Get(hook)
        run == Get(hook_run)
    IN /\ self.iter = (run.i - 1) * run.nbatches + run.j
       /\ run.j <= run.nbatches
       /\ IsNone(self.batches) <=> Evaluations(hook_log) = {}
       /\ \A k \in Evaluations(hook_log) :
            /\ hook_log[k][3].covered = self.total
            /\ hook_log[k][3].generated <=> hook_log[k][2] = 1

\* C24 witness: two epochs of two batches each are completed, and the
\* second evaluation has covered the whole non-empty dataset with the
\* batches the first one obtained.
C24_Witness ==
  /\ ~IsNone(hook) /\ ~IsNone(hook_run)
  /\ Get(hook_run).i = 3 /\ Get(hook_run).nbatches = 2
  /\ Get(hook).iter = 4 /\ Get(hook).total = MaxTotal
  /\ \E k \in Evaluations(hook_log) :
       /\ hook_log[k][2] = 2
       /\ ~hook_log[k][3].generated
       /\ hook_log[k][3].covered = MaxTotal

SideEffectCalls == {k \in 1 .. Len(hook_log) : hook_log[k][1] = "side_effect"}

\* The state the callback returned last before event k (None if it has
\* not been called before).
StateBefore(k) ==
  LET before == {c \in SideEffectCalls : c < k} IN
  IF before = {} THEN None
  ELSE hook_log[CHOOSE c \in before : \A d \in before : d <= c][3].ret

\* C25: with a side-effect callback, every evaluation by __call__ is
\* followed at once by exactly one call of the callback, made for the
\* metrics of that evaluation and with the state the previous call
\* returned (None for the first), there is no other call, and the stored
\* state is what the last call returned; without a callback there is no
\* call and the stored state stays None.
C25_SideEffectOncePerEvaluation ==
  ~IsNone(hook) =>
    LET self == Get(hook)
        byCall == {k \in Evaluations(hook_log) :
                     hook_log[k][3].via # "KBPEvalHook.at_test_time"}
    IN /\ self.side_effect_state = StateBefore(Len(hook_log) + 1)
       /\ IF self.side_effect
          THEN /\ \A k \in byCall :
                    /\ k + 1 \in SideEffectCalls
                    /\ hook_log[k + 1][2] = hook_log[k][2]
               /\ \A c \in SideEffectCalls :
                    /\ c - 1 \in byCall
                    /\ hook_log[c][3].prior = StateBefore(c)
          ELSE SideEffectCalls = {} /\ IsNone(self.side_effect_state)

\* C25 witness: the callback has been called twice, the second time with
\* the state its first call returned, and its second return value is the
\* stored state.
C25_Witness ==
  /\ ~IsNone(hook) /\ Get(hook).side_effect
  /\ Cardinality(SideEffectCalls) = 2
  /\ \E c \in SideEffectCalls :
       hook_log[c][3].prior = Some(1) /\ hook_log[c][3].ret = Some(2)
  /\ Get(hook).side_effect_state = Some(2)

\* C27: the iteration-triggered evaluations so far are floor(n / interval)
\* for the n iteration-end callbacks so far (none without an interval), the
\* epoch-triggered ones are one for every completed epoch whose number is
\* a multiple of the epoch interval (none without one), and the counter
\* goes up by one in every iteration-end callback and changes in no other
\* step.
C27_EvaluationsAtIntervals ==
  /\ []((~IsNone(hook) /\ ~IsNone(hook_run)) =>
          LET self == Get(hook)
              run == Get(hook_run)
          IN /\ Cardinality(EvaluationsVia("at_iteration_end")) =
                  IF IsNone(self.iter_interval) THEN 0
                  ELSE self.iter \div Get(self.iter_interval)
             /\ \A k \in EvaluationsVia("at_iteration_end") :
                  hook_log[k][3].iter % Get(self.iter_interval) = 0
             /\ {hook_log[k][3].epoch : k \in EvaluationsVia("at_epoch_end")} =
                  IF IsNone(self.epoch_interval) THEN {}
                  ELSE {e \in 1 .. (run.i - 1) :
                          e % Get(self.epoch_interval) = 0}
             /\ Cardinality(EvaluationsVia("at_epoch_end")) =
                  Cardinality({hook_log[k][3].epoch :
                                 k \in EvaluationsVia("at_epoch_end")}))
  /\ [][(~IsNone(hook) /\ ~IsNone(hook_run)) =>
          Get(hook)'.iter =
            IF Get(hook_run)'.j = Get(hook_run).j + 1
            THEN Get(hook).iter + 1 ELSE Get(hook).iter]_vars

\* C27 witness: with an iteration interval of 2 and an epoch interval of 2,
\* four iteration-end callbacks and two epoch ends have run two
\* iteration-triggered evaluations and one epoch-triggered evaluation.
C27_Witness ==
  /\ ~IsNone(hook) /\ ~IsNone(hook_run)
  /\ Get(hook).iter_interval = Some(2) /\ Get(hook).epoch_interval = Some(2)
  /\ Get(hook).iter = 4 /\ Get(hook_run).i = 3
  /\ Cardinality(EvaluationsVia("at_iteration_end")) = 2
  /\ Cardinality(EvaluationsVia("at_epoch_end")) = 1

====
